---- MODULE Spec2Model ----
(***************************************************************************)
(* Model of the fair-data-protocol client: pods, directories and files     *)
(* kept as versioned records in single-owner feeds of a chunk store.       *)
(*                                                                         *)
(* Abstractions.  A topic is the sequence of the path's segments ("/" is   *)
(* the empty sequence, "/a/b" is <<"a","b">>); the pod list topic is       *)
(* <<"Pods">> under the root wallet (owner 0), the wallet of the pod with  *)
(* index i is owner i.  A JSON document is the record of its fields.  A    *)
(* content reference is the content itself (content addressing).  Bytes    *)
(* are small naturals.  Pod names are sequences of characters.             *)
(***************************************************************************)
EXTENDS Integers, Sequences, FiniteSets, TLC

VARIABLES
    now,      \* getUnixTimestamp(): the clock, in seconds
    feed,     \* the single-owner chunks: <<owner, topic, level, time>> -> payload
    blobs,    \* the content-addressed payloads uploaded with uploadBytes
    steps,    \* number of public operations called so far
    last,     \* the last public operation: its arguments, outcome and I/O
    hist,     \* the successful pod creates and deletes and file uploads so far
    calls     \* the calls in flight of the concurrent writers, one per writer

vars == <<now, feed, blobs, steps, last, hist, calls>>

----------------------------------------------------------------------------
(* Bounds of the model *)

MaxTime == 1
MaxSteps == 5
MaxLen == 3

(* Program constants *)

HIGHEST_LEVEL == 31
MAX_POD_NAME_LENGTH == 64
MAX_PODS_COUNT == 65536

ROOT_OWNER == 0
POD_TOPIC == <<"Pods">>
FILE_TOKEN == "_F_"
DIRECTORY_TOKEN == "_D_"
NoEpoch == [level |-> -1, time |-> 0]

----------------------------------------------------------------------------
(* Epochs and lookup *)

RECURSIVE Pow2(_)
Pow2(l) == IF l = 0 THEN 1 ELSE 2 * Pow2(l - 1)

\* time masked to the granularity of the level; the clock stays below 2^30
getBaseTime(t, l) == IF l >= 30 THEN 0 ELSE t - (t % Pow2(l))

EpochUnaligned(l, t) == [level |-> l, time |-> t]

Epoch(l, t) == [level |-> l, time |-> getBaseTime(t, l)]

getFirstEpoch(t) == Epoch(HIGHEST_LEVEL, t)

InWindow(e, t) == getBaseTime(t, e.level) = e.time

nextEpochNeverRolling(top, e, t) == Epoch(IF e.level > 0 THEN e.level - 1 ELSE 0, t)

\* getNextEpoch when the coarsest level is `top`
nextEpochUnder(top, e, t) ==
    IF InWindow(e, t) /\ e.level > 0
    THEN Epoch(e.level - 1, t)
    ELSE Epoch(top, t)

getNextEpoch(e, t) == nextEpochUnder(HIGHEST_LEVEL, e, t)

Addr(owner, topic, e) == <<owner, topic, e.level, e.time>>

RECURSIVE DescendMissOverrides(_, _, _, _, _, _)
DescendMissOverrides(f, owner, topic, t, level, best) ==
    IF level < 0 THEN best
    ELSE LET e == Epoch(level, t)
         IN  IF Addr(owner, topic, e) \in DOMAIN f
             THEN DescendMissOverrides(f, owner, topic, t, level - 1, e)
             ELSE NoEpoch

\* descends from `level` while the chunk of the window holding t exists
RECURSIVE Descend(_, _, _, _, _, _)
Descend(f, owner, topic, t, level, best) ==
    IF level < 0 THEN best
    ELSE LET e == Epoch(level, t)
         IN  IF Addr(owner, topic, e) \in DOMAIN f
             THEN Descend(f, owner, topic, t, level - 1, e)
             ELSE best

\* lookup when the coarsest level is `top`
lookupUnder(top, f, owner, topic, t) == Descend(f, owner, topic, t, top, NoEpoch)

\* the epoch of the latest version found, NoEpoch for 'Data not found'
lookup(f, owner, topic, t) == lookupUnder(HIGHEST_LEVEL, f, owner, topic, t)

Found(e) == e.level >= 0

getFeedData(f, owner, topic, t) ==
    LET e == lookup(f, owner, topic, t)
    IN  [found |-> Found(e), epoch |-> e,
         data |-> IF Found(e) THEN f[Addr(owner, topic, e)] ELSE <<>>]

writeFeedDataRawOverwriting(f, owner, topic, data, e) ==
    [a \in DOMAIN f \cup {Addr(owner, topic, e)} |->
        IF a = Addr(owner, topic, e) THEN data ELSE f[a]]

\* the store refuses a chunk at an address it holds; the writer reports success
writeFeedDataRaw(f, owner, topic, data, e) ==
    IF Addr(owner, topic, e) \in DOMAIN f
    THEN f
    ELSE [a \in DOMAIN f \cup {Addr(owner, topic, e)} |->
            IF a = Addr(owner, topic, e) THEN data ELSE f[a]]

----------------------------------------------------------------------------
(* Pod list *)

Chars(n, c) == [i \in 1..n |-> c]
ValidPodNames == {<<"p">>, <<"q">>, <<"r">>}
LongPodName == Chars(MAX_POD_NAME_LENGTH + 1, "x")
PodNameInputs == ValidPodNames \cup {<<>>, <<"p", ",", "q">>, LongPodName}

assertPodName(name) ==
    IF Len(name) = 0 THEN "TooShort"
    ELSE IF Len(name) > MAX_POD_NAME_LENGTH THEN "TooLong"
    ELSE IF \E i \in 1..Len(name) : name[i] = "," THEN "HasComma"
    ELSE "ok"

assertPodsLength(n) == IF n > MAX_PODS_COUNT THEN "TooManyPods" ELSE "ok"

HasPod(pods, name) == \E i \in 1..Len(pods) : pods[i].name = name

assertPodNameAvailable(pods, name) ==
    IF HasPod(pods, name) THEN "AlreadyExists" ELSE "ok"

\* {pods, lookupAnswer}: an account without a pod list has no pods
getPodsList(f, t) ==
    LET a == getFeedData(f, ROOT_OWNER, POD_TOPIC, t)
    IN  [pods |-> IF a.found THEN a.data.pods ELSE <<>>,
         found |-> a.found, epoch |-> a.epoch]

podListToBytes(pods) == [type |-> "pods", pods |-> pods]

----------------------------------------------------------------------------
(* Encryption *)

\* a pod's password, kept with the pod
podPassword(pod) == pod.index

\* of a byte sequence: every byte enciphered under the key (never the identity)
encryptBytes(key, bytes) == [i \in 1..Len(bytes) |-> 256 * key + bytes[i]]

\* of a JSON document
encryptJson(key, doc) == [key |-> key, plain |-> doc]

writeFeedData(f, owner, topic, doc, key, e) ==
    writeFeedDataRaw(f, owner, topic, encryptJson(key, doc), e)

\* the epoch of a write that passes none
DefaultEpoch(t) == Epoch(HIGHEST_LEVEL, t)

----------------------------------------------------------------------------
(* I/O log of an operation *)

IoLookup(owner, topic, e) ==
    [kind |-> "lookup", owner |-> owner, topic |-> topic, level |-> e.level, time |-> e.time]

IoWrite(owner, topic, e) ==
    [kind |-> "write", owner |-> owner, topic |-> topic, level |-> e.level, time |-> e.time]

IoUpload == [kind |-> "upload", owner |-> -1, topic |-> <<>>, level |-> -1, time |-> 0]

IoDownload == [kind |-> "download", owner |-> -1, topic |-> <<>>, level |-> -1, time |-> 0]

\* what a handler leaves behind
Outcome(result, f, b, trace, data) ==
    [result |-> result, feed |-> f, blobs |-> b, trace |-> trace, data |-> data]

----------------------------------------------------------------------------
(* Metadata of directories and files *)

Root == <<>>
EmptyPath == <<"">>
ParentOf(path) == SubSeq(path, 1, Len(path) - 1)
NameOf(path) == path[Len(path)]
combine(parent, name) == Append(parent, name)

createRawDirectoryMetadata(path, name, t) ==
    [type |-> "dir", path |-> path, name |-> name, creationTime |-> t,
     modificationTime |-> t, accessTime |-> t, fileOrDirNames |-> <<>>]

assertRawDirectoryMetadata(doc) == doc.type = "dir"
assertRawFileMetadata(doc) == doc.type = "file"

\* {found, epoch, metadata}: the latest decrypted record of a path
getRawMetadata(f, owner, path, key, t) ==
    LET a == getFeedData(f, owner, path, t)
        readable == a.found /\ a.data.key = key
    IN  [found |-> readable, epoch |-> a.epoch,
         metadata |-> IF readable THEN a.data.plain ELSE [type |-> "none"]]

\* the existence probe of a path that is about to be created
assertItemIsNotExists(f, owner, path, t) ==
    IF Found(lookup(f, owner, path, t)) THEN "AlreadyExists" ELSE "ok"

Listed(names, item) == \E i \in 1..Len(names) : names[i] = item

Token(isFile) == IF isFile THEN FILE_TOKEN ELSE DIRECTORY_TOKEN

\* add-entry from the fetch of the parent on; `io` is the I/O done so far
addEntryToParent(f, t, owner, key, parentPath, entryPath, isFile, io) ==
    LET parent == getRawMetadata(f, owner, parentPath, key, t)
        fetch == IoLookup(owner, parentPath, parent.epoch)
        itemToAdd == <<Token(isFile), entryPath>>
        next == getNextEpoch(parent.epoch, t)
        parentData == [parent.metadata EXCEPT
                         !.fileOrDirNames = Append(@, itemToAdd),
                         !.modificationTime = t]
    IN  IF ~(parent.found /\ assertRawDirectoryMetadata(parent.metadata))
        THEN Outcome("ParentNotFound", f, {}, Append(io, fetch), <<>>)
        ELSE IF Listed(parent.metadata.fileOrDirNames, itemToAdd)
             THEN Outcome("AlreadyListed", f, {}, Append(io, fetch), <<>>)
        ELSE Outcome("ok", writeFeedData(f, owner, parentPath, parentData, key, next), {},
                     io \o <<fetch, IoWrite(owner, parentPath, next)>>, <<>>)

addEntryToDirectoryUnprobed(f, t, owner, key, parentPath, entryPath, isFile) ==
    IF parentPath = EmptyPath THEN Outcome("IncorrectParentPath", f, {}, <<>>, <<>>)
    ELSE IF entryPath = "" THEN Outcome("IncorrectEntryPath", f, {}, <<>>, <<>>)
    ELSE addEntryToParent(f, t, owner, key, parentPath, entryPath, isFile, <<>>)

addEntryToDirectory(f, t, owner, key, parentPath, entryPath, isFile) ==
    LET fullPath == combine(parentPath, entryPath)
        probe == IoLookup(owner, fullPath, lookup(f, owner, fullPath, t))
    IN  IF parentPath = EmptyPath THEN Outcome("IncorrectParentPath", f, {}, <<>>, <<>>)
        ELSE IF entryPath = "" THEN Outcome("IncorrectEntryPath", f, {}, <<>>, <<>>)
        ELSE IF assertItemIsNotExists(f, owner, fullPath, t) # "ok"
             THEN Outcome("AlreadyExists", f, {}, <<probe>>, <<>>)
        ELSE addEntryToParent(f, t, owner, key, parentPath, entryPath, isFile, <<probe>>)

RemoveItemInverted(names, item) == SelectSeq(names, LAMBDA n : n = item)

\* FileOrDirNames.filter(name => name !== itemToRemove)
RemoveItem(names, item) == SelectSeq(names, LAMBDA n : n # item)

removeEntryFromDirectory(f, t, owner, key, parentPath, entryPath, isFile) ==
    LET parent == getRawMetadata(f, owner, parentPath, key, t)
        fetch == IoLookup(owner, parentPath, parent.epoch)
        itemToRemove == <<Token(isFile), entryPath>>
        next == getNextEpoch(parent.epoch, t)
        parentData == [parent.metadata EXCEPT
                         !.fileOrDirNames = RemoveItem(@, itemToRemove)]
    IN  IF ~parent.found THEN Outcome("NotFound", f, {}, <<fetch>>, <<>>)
        ELSE IF ~assertRawDirectoryMetadata(parent.metadata)
             THEN Outcome("NotDirectory", f, {}, <<fetch>>, <<>>)
        ELSE Outcome("ok", writeFeedData(f, owner, parentPath, parentData, key, next), {},
                     <<fetch, IoWrite(owner, parentPath, next)>>, <<>>)

createDirectoryInfo(f, t, owner, key, path, name) ==
    writeFeedData(f, owner, IF path = EmptyPath THEN Root ELSE combine(path, name),
                  createRawDirectoryMetadata(path, name, t), key, DefaultEpoch(t))

createRootDirectory(f, t, owner, key) == createDirectoryInfo(f, t, owner, key, EmptyPath, "/")

----------------------------------------------------------------------------
(* Pods: PersonalStorage *)

NextIndexFromZero(pods) == Len(pods)

NextIndex(pods) == Len(pods) + 1

FirstOrNextEpoch(info, t) ==
    IF info.found THEN getNextEpoch(info.epoch, t) ELSE getFirstEpoch(t)

podCreateRefusalNoNameCheck(pods, name) == assertPodsLength(NextIndex(pods))

\* the checks on the fetched list: assertPodsLength, then assertPodNameAvailable
podCreateRefusal(pods, name) ==
    IF assertPodsLength(NextIndex(pods)) # "ok" THEN "TooManyPods"
    ELSE assertPodNameAvailable(pods, name)

\* create from the fetch of the pod list on (the name has no surrounding blanks)
podCreateFetched(f, t, name) ==
    LET info == getPodsList(f, t)
        fetch == IoLookup(ROOT_OWNER, POD_TOPIC, info.epoch)
        nextIndex == NextIndex(info.pods)
        epoch == FirstOrNextEpoch(info, t)
        newPod == [name |-> name, index |-> nextIndex]
        f1 == writeFeedDataRaw(f, ROOT_OWNER, POD_TOPIC,
                               podListToBytes(Append(info.pods, newPod)), epoch)
        f2 == createRootDirectory(f1, t, nextIndex, podPassword(newPod))
    IN  IF podCreateRefusal(info.pods, name) # "ok"
        THEN Outcome(podCreateRefusal(info.pods, name), f, {}, <<fetch>>, <<>>)
        ELSE Outcome("ok", f2, {},
                     <<fetch, IoWrite(ROOT_OWNER, POD_TOPIC, epoch),
                       IoWrite(nextIndex, Root, DefaultEpoch(t))>>, <<>>)

podCreateValidatedLast(f, t, name) ==
    IF assertPodName(name) # "ok"
    THEN [podCreateFetched(f, t, name) EXCEPT !.result = assertPodName(name)]
    ELSE podCreateFetched(f, t, name)

podCreate(f, t, name) ==
    IF assertPodName(name) # "ok"
    THEN Outcome(assertPodName(name), f, {}, <<>>, <<>>)
    ELSE podCreateFetched(f, t, name)

FilterPodsRenumbered(pods, name) ==
    LET kept == SelectSeq(pods, LAMBDA p : p.name # name)
    IN  [i \in 1..Len(kept) |-> [kept[i] EXCEPT !.index = i]]

FilterPods(pods, name) == SelectSeq(pods, LAMBDA p : p.name # name)

podDeleteUnchecked(f, t, name) ==
    LET info == getPodsList(f, t)
        epoch == FirstOrNextEpoch(info, t)
    IN  Outcome("ok",
                writeFeedDataRaw(f, ROOT_OWNER, POD_TOPIC,
                                 podListToBytes(FilterPods(info.pods, name)), epoch),
                {}, <<IoLookup(ROOT_OWNER, POD_TOPIC, info.epoch),
                      IoWrite(ROOT_OWNER, POD_TOPIC, epoch)>>, <<>>)

podDelete(f, t, name) ==
    LET info == getPodsList(f, t)
        fetch == IoLookup(ROOT_OWNER, POD_TOPIC, info.epoch)
        epoch == getNextEpoch(info.epoch, t)
    IN  IF assertPodsLength(Len(info.pods)) # "ok"
        THEN Outcome("TooManyPods", f, {}, <<fetch>>, <<>>)
        ELSE IF ~HasPod(info.pods, name) THEN Outcome("NotFound", f, {}, <<fetch>>, <<>>)
        ELSE Outcome("ok",
                     writeFeedDataRaw(f, ROOT_OWNER, POD_TOPIC,
                                      podListToBytes(FilterPods(info.pods, name)), epoch),
                     {}, <<fetch, IoWrite(ROOT_OWNER, POD_TOPIC, epoch)>>, <<>>)

\* the pod of a name with its wallet and password, or none
FindPod(pods, name) ==
    IF HasPod(pods, name)
    THEN LET i == CHOOSE j \in 1..Len(pods) :
                    pods[j].name = name /\ \A k \in 1..(j - 1) : pods[k].name # name
         IN  [found |-> TRUE, pod |-> pods[i], owner |-> pods[i].index,
              key |-> podPassword(pods[i])]
    ELSE [found |-> FALSE, pod |-> [name |-> name, index |-> 0], owner |-> 0, key |-> 0]

getWritablePodInfo(f, t, podName) == FindPod(getPodsList(f, t).pods, podName)

----------------------------------------------------------------------------
(* Directories *)

assertPartsLength(path) == IF Len(path) = 0 THEN "InvalidPath" ELSE "ok"
assertDirectoryName(name) == IF name = "" THEN "InvalidName" ELSE "ok"
assertFullPathWithName(path) == IF Len(path) = 0 THEN "InvalidPath" ELSE "ok"

createDirectoryInfoFirst(f, t, owner, key, fullPath) ==
    LET name == NameOf(fullPath)
        parentPath == ParentOf(fullPath)
        info == createDirectoryInfo(f, t, owner, key, parentPath, name)
        added == addEntryToDirectory(f, t, owner, key, parentPath, name, FALSE)
    IN  IF added.result # "ok" THEN [added EXCEPT !.feed = info]
        ELSE Outcome("ok", createDirectoryInfo(added.feed, t, owner, key, parentPath, name), {},
                     added.trace, <<>>)

createDirectoryListingOnly(f, t, owner, key, fullPath) ==
    LET name == NameOf(fullPath)
        parentPath == ParentOf(fullPath)
        added == addEntryToDirectory(f, t, owner, key, parentPath, name, FALSE)
    IN  IF assertPartsLength(fullPath) # "ok" THEN Outcome("InvalidPath", f, {}, <<>>, <<>>)
        ELSE IF assertDirectoryName(name) # "ok" THEN Outcome("InvalidName", f, {}, <<>>, <<>>)
        ELSE added

createDirectory(f, t, owner, key, fullPath) ==
    LET name == NameOf(fullPath)
        parentPath == ParentOf(fullPath)
        added == addEntryToDirectory(f, t, owner, key, parentPath, name, FALSE)
        own == combine(parentPath, name)
    IN  IF assertPartsLength(fullPath) # "ok" THEN Outcome("InvalidPath", f, {}, <<>>, <<>>)
        ELSE IF assertDirectoryName(name) # "ok" THEN Outcome("InvalidName", f, {}, <<>>, <<>>)
        ELSE IF added.result # "ok" THEN added
        ELSE Outcome("ok", createDirectoryInfo(added.feed, t, owner, key, parentPath, name), {},
                     Append(added.trace, IoWrite(owner, own, DefaultEpoch(t))), <<>>)

PodFetch(f, t) == IoLookup(ROOT_OWNER, POD_TOPIC, getPodsList(f, t).epoch)

\* a handler's outcome with the pod-list fetch in front of its I/O
AfterPodFetch(f, t, out) == [out EXCEPT !.trace = <<PodFetch(f, t)>> \o @]

directoryCreate(f, t, podName, fullPath) ==
    LET info == getWritablePodInfo(f, t, podName)
    IN  IF assertPodName(podName) # "ok" THEN Outcome(assertPodName(podName), f, {}, <<>>, <<>>)
        ELSE IF ~info.found THEN Outcome("PodNotFound", f, {}, <<PodFetch(f, t)>>, <<>>)
        ELSE AfterPodFetch(f, t, createDirectory(f, t, info.owner, info.key, fullPath))

directoryDelete(f, t, podName, fullPath) ==
    LET info == getWritablePodInfo(f, t, podName)
    IN  IF assertPodName(podName) # "ok" THEN Outcome(assertPodName(podName), f, {}, <<>>, <<>>)
        ELSE IF ~info.found THEN Outcome("PodNotFound", f, {}, <<PodFetch(f, t)>>, <<>>)
        ELSE AfterPodFetch(f, t,
                 removeEntryFromDirectory(f, t, info.owner, info.key,
                                          ParentOf(fullPath), NameOf(fullPath), FALSE))

----------------------------------------------------------------------------
(* Files *)

Min(a, b) == IF a < b THEN a ELSE b

BlocksCountFloor(data, blockSize) == Len(data) \div blockSize

\* Math.ceil(data.length / blockSize)
BlocksCount(data, blockSize) == (Len(data) + blockSize - 1) \div blockSize

\* data.slice(i * blockSize, (i + 1) * blockSize), i from 0
Slice(data, i, blockSize) ==
    SubSeq(data, i * blockSize + 1, Min((i + 1) * blockSize, Len(data)))

generateBlockName(i) == <<"block", i>>

\* uploadBytes: the payload is stored under its content reference
BytesBlob(bytes) == [kind |-> "bytes", bytes |-> bytes]
DocBlob(doc) == [kind |-> "doc", doc |-> doc]

\* the blocks of an upload: each slice is encrypted with the pod password and uploaded
UploadBlocks(data, blockSize, key) ==
    [j \in 1..BlocksCount(data, blockSize) |->
        [name |-> generateBlockName(j - 1),
         size |-> Len(Slice(data, j - 1, blockSize)),
         compressedSize |-> Len(Slice(data, j - 1, blockSize)),
         reference |-> BytesBlob(encryptBytes(key, Slice(data, j - 1, blockSize)))]]

blocksToManifest(blocks) == [blocks |-> blocks]

\* FileMetadata -> the raw wire record
getFileMetadataRawBytes(meta) ==
    [type |-> "file", version |-> meta.version, file_path |-> meta.filePath,
     file_name |-> meta.fileName, file_size |-> meta.fileSize,
     block_size |-> meta.blockSize, content_type |-> meta.contentType,
     compression |-> meta.compression, creation_time |-> meta.creationTime,
     access_time |-> meta.accessTime, modification_time |-> meta.modificationTime,
     file_inode_reference |-> meta.blocksReference, pod_name |-> meta.podName,
     shared_password |-> meta.sharedPassword]

\* the raw wire record -> FileMetadata
rawFileMetadataToFileMetadata(raw) ==
    [version |-> raw.version, filePath |-> raw.file_path, fileName |-> raw.file_name,
     fileSize |-> raw.file_size, blockSize |-> raw.block_size,
     contentType |-> raw.content_type, compression |-> raw.compression,
     creationTime |-> raw.creation_time, accessTime |-> raw.access_time,
     modificationTime |-> raw.modification_time,
     blocksReference |-> raw.file_inode_reference, podName |-> raw.pod_name,
     sharedPassword |-> raw.shared_password]

META_VERSION == 2

fileUploadData(f, t, podName, fullPath, data, blockSize) ==
    LET info == getWritablePodInfo(f, t, podName)
        blocks == UploadBlocks(data, blockSize, info.key)
        manifest == DocBlob(encryptJson(info.key, blocksToManifest(blocks)))
        uploaded == {blocks[j].reference : j \in 1..Len(blocks)} \cup {manifest}
        uploads == [j \in 1..(Len(blocks) + 1) |-> IoUpload]
        meta == [version |-> META_VERSION, podName |-> podName,
                 filePath |-> ParentOf(fullPath), fileName |-> NameOf(fullPath),
                 fileSize |-> Len(data), blockSize |-> blockSize, contentType |-> "",
                 compression |-> "", creationTime |-> t, accessTime |-> t,
                 modificationTime |-> t, blocksReference |-> manifest,
                 sharedPassword |-> ""]
        added == addEntryToDirectory(f, t, info.owner, info.key,
                                     ParentOf(fullPath), NameOf(fullPath), TRUE)
    IN  IF assertPodName(podName) # "ok" THEN Outcome(assertPodName(podName), f, {}, <<>>, <<>>)
        ELSE IF assertFullPathWithName(fullPath) # "ok"
             THEN Outcome("InvalidPath", f, {}, <<>>, <<>>)
        ELSE IF ~info.found THEN Outcome("PodNotFound", f, {}, <<PodFetch(f, t)>>, <<>>)
        ELSE IF added.result # "ok"
             THEN Outcome(added.result, f, uploaded,
                          <<PodFetch(f, t)>> \o uploads \o added.trace, <<>>)
        ELSE Outcome("ok",
                     writeFeedData(added.feed, info.owner, fullPath,
                                   getFileMetadataRawBytes(meta), info.key, DefaultEpoch(t)),
                     uploaded,
                     <<PodFetch(f, t)>> \o uploads \o added.trace
                        \o <<IoWrite(info.owner, fullPath, DefaultEpoch(t))>>,
                     <<>>)

\* a JSON document uploaded as it is, under no password
PlainDoc(doc) == DocBlob([key |-> 0, plain |-> doc])

\* the blocks of an upload of the handler: each slice is uploaded as it is
UploadPlainBlocks(data, blockSize) ==
    [j \in 1..BlocksCount(data, blockSize) |->
        [name |-> generateBlockName(j - 1),
         size |-> Len(Slice(data, j - 1, blockSize)),
         compressedSize |-> Len(Slice(data, j - 1, blockSize)),
         reference |-> BytesBlob(Slice(data, j - 1, blockSize))]]

\* the latest version of the path that is about to be written, if any
getCreationPathInfo(f, owner, path, t) ==
    [found |-> Found(lookup(f, owner, path, t)), epoch |-> lookup(f, owner, path, t)]

\* the upload of the handler, which Directory.upload calls for every file; the
\* fields of the metadata that it leaves out are empty
uploadData(f, t, podName, fullPath, data, blockSize) ==
    LET info == getWritablePodInfo(f, t, podName)
        fullPathInfo == getCreationPathInfo(f, info.owner, fullPath, t)
        blocks == UploadPlainBlocks(data, blockSize)
        manifest == PlainDoc(blocksToManifest(blocks))
        uploaded == {blocks[j].reference : j \in 1..Len(blocks)} \cup {manifest}
        uploads == [j \in 1..(Len(blocks) + 1) |-> IoUpload]
        meta == [version |-> META_VERSION, podName |-> <<>>,
                 filePath |-> ParentOf(fullPath), fileName |-> NameOf(fullPath),
                 fileSize |-> Len(data), blockSize |-> blockSize, contentType |-> "",
                 compression |-> "", creationTime |-> t, accessTime |-> t,
                 modificationTime |-> t, blocksReference |-> manifest,
                 sharedPassword |-> ""]
        added == addEntryToDirectory(f, t, info.owner, info.key,
                                     ParentOf(fullPath), NameOf(fullPath), TRUE)
        next == FirstOrNextEpoch(fullPathInfo, t)
        io == <<PodFetch(f, t), IoLookup(info.owner, fullPath, fullPathInfo.epoch)>>
                 \o uploads
    IN  IF assertPodName(podName) # "ok" THEN Outcome(assertPodName(podName), f, {}, <<>>, <<>>)
        ELSE IF assertFullPathWithName(fullPath) # "ok"
             THEN Outcome("InvalidPath", f, {}, <<>>, <<>>)
        ELSE IF ~info.found THEN Outcome("PodNotFound", f, {}, <<PodFetch(f, t)>>, <<>>)
        ELSE IF added.result # "ok"
             THEN Outcome(added.result, f, uploaded, io \o added.trace, <<>>)
        ELSE Outcome("ok",
                     writeFeedData(added.feed, info.owner, fullPath,
                                   getFileMetadataRawBytes(meta), info.key, next),
                     uploaded,
                     io \o added.trace \o <<IoWrite(info.owner, fullPath, next)>>,
                     <<>>)

\* the blocks listed by the manifest stored under a reference
downloadBlocksManifest(reference) == reference.doc.plain.blocks

RECURSIVE SumSizes(_)
SumSizes(blocks) ==
    IF Len(blocks) = 0 THEN 0 ELSE blocks[1].size + SumSizes(Tail(blocks))

\* result.set(data, offset) for every block in manifest order: the bytes fetched
\* from the store are copied as they are
RECURSIVE Assemble(_)
Assemble(blocks) ==
    IF Len(blocks) = 0 THEN <<>>
    ELSE blocks[1].reference.bytes \o Assemble(Tail(blocks))

\* the offset of every result.set: offset += data.length after each block
RECURSIVE writeOffsets(_, _)
writeOffsets(blocks, offset) ==
    IF Len(blocks) = 0 THEN <<>>
    ELSE <<offset>> \o writeOffsets(Tail(blocks), offset + Len(blocks[1].reference.bytes))

downloadDataAnyCompression(f, t, owner, key, fullPath) ==
    LET raw == getRawMetadata(f, owner, fullPath, key, t)
        fetch == IoLookup(owner, fullPath, raw.epoch)
        blocks == downloadBlocksManifest(
                      rawFileMetadataToFileMetadata(raw.metadata).blocksReference)
        downloads == [j \in 1..(Len(blocks) + 1) |-> IoDownload]
    IN  IF ~raw.found THEN Outcome("NotFound", f, {}, <<fetch>>, <<>>)
        ELSE IF ~assertRawFileMetadata(raw.metadata)
             THEN Outcome("NotFile", f, {}, <<fetch>>, <<>>)
        ELSE Outcome("ok", f, {}, <<fetch>> \o downloads, Assemble(blocks))

downloadData(f, t, owner, key, fullPath) ==
    LET raw == getRawMetadata(f, owner, fullPath, key, t)
        fetch == IoLookup(owner, fullPath, raw.epoch)
        fileMetadata == rawFileMetadataToFileMetadata(raw.metadata)
        blocks == downloadBlocksManifest(fileMetadata.blocksReference)
        downloads == [j \in 1..(Len(blocks) + 1) |-> IoDownload]
    IN  IF ~raw.found THEN Outcome("NotFound", f, {}, <<fetch>>, <<>>)
        ELSE IF ~assertRawFileMetadata(raw.metadata)
             THEN Outcome("NotFile", f, {}, <<fetch>>, <<>>)
        ELSE IF fileMetadata.compression # ""
             THEN Outcome("Unsupported", f, {}, <<fetch>>, <<>>)
        ELSE IF Len(Assemble(blocks)) > SumSizes(blocks)
             THEN Outcome("RangeError", f, {}, <<fetch>> \o downloads, <<>>)
        ELSE Outcome("ok", f, {}, <<fetch>> \o downloads, Assemble(blocks))

fileDownloadData(f, t, podName, fullPath) ==
    LET info == getWritablePodInfo(f, t, podName)
    IN  IF assertPodName(podName) # "ok" THEN Outcome(assertPodName(podName), f, {}, <<>>, <<>>)
        ELSE IF assertFullPathWithName(fullPath) # "ok"
             THEN Outcome("InvalidPath", f, {}, <<>>, <<>>)
        ELSE IF ~info.found THEN Outcome("PodNotFound", f, {}, <<PodFetch(f, t)>>, <<>>)
        ELSE AfterPodFetch(f, t, downloadData(f, t, info.owner, info.key, fullPath))

fileDelete(f, t, podName, fullPath) ==
    LET info == getWritablePodInfo(f, t, podName)
    IN  IF assertFullPathWithName(fullPath) # "ok" THEN Outcome("InvalidPath", f, {}, <<>>, <<>>)
        ELSE IF assertPodName(podName) # "ok"
             THEN Outcome(assertPodName(podName), f, {}, <<>>, <<>>)
        ELSE IF ~info.found THEN Outcome("PodNotFound", f, {}, <<PodFetch(f, t)>>, <<>>)
        ELSE AfterPodFetch(f, t,
                 removeEntryFromDirectory(f, t, info.owner, info.key,
                                          ParentOf(fullPath), NameOf(fullPath), TRUE))

----------------------------------------------------------------------------
(* Sharing of files *)

\* hex characters of a plain and of an encrypted reference
REFERENCE_HEX_LENGTH == 64
ENCRYPTED_REFERENCE_HEX_LENGTH == 128

NoBlob == [kind |-> "none"]

\* a reference as its holder sees it: so many hex characters, resolving to a blob
Reference(blob, hexLength) == [hexLength |-> hexLength, blob |-> blob]

assertEncryptedReference(reference) ==
    IF reference.hexLength = ENCRYPTED_REFERENCE_HEX_LENGTH THEN "ok" ELSE "InvalidReference"

\* JSON of the share information of a file, uploaded as it is
createFileShareInfo(meta) == [kind |-> "fileShare", meta |-> meta]

\* the pod password in hex, as the capsule carries it
bytesToHex(key) == <<"hex", key>>

\* the capsule behind a reference, parsed
getSharedFileInfo(reference) ==
    IF reference.blob.kind = "none" THEN [result |-> "NotFound", meta |-> NoBlob]
    ELSE IF reference.blob.kind # "fileShare"
         THEN [result |-> "InvalidShareInfo", meta |-> NoBlob]
    ELSE [result |-> "ok", meta |-> reference.blob.meta]

fileShareMarking(f, t, podName, fullPath) ==
    LET info == getWritablePodInfo(f, t, podName)
        raw == getRawMetadata(f, info.owner, fullPath, info.key, t)
        marked == [raw.metadata EXCEPT !.shared_password = bytesToHex(info.key)]
        next == getNextEpoch(raw.epoch, t)
    IN  IF ~(info.found /\ raw.found /\ assertRawFileMetadata(raw.metadata))
        THEN Outcome("NotFound", f, {}, <<>>, <<>>)
        ELSE Outcome("ok", writeFeedData(f, info.owner, fullPath, marked, info.key, next),
                     {createFileShareInfo(marked)},
                     <<PodFetch(f, t), IoLookup(info.owner, fullPath, raw.epoch), IoUpload,
                       IoWrite(info.owner, fullPath, next)>>,
                     <<Reference(createFileShareInfo(marked), ENCRYPTED_REFERENCE_HEX_LENGTH)>>)

fileShare(f, t, podName, fullPath) ==
    LET info == getWritablePodInfo(f, t, podName)
        raw == getRawMetadata(f, info.owner, fullPath, info.key, t)
        fetch == IoLookup(info.owner, fullPath, raw.epoch)
        capsule == createFileShareInfo(
                       [raw.metadata EXCEPT !.shared_password = bytesToHex(info.key)])
    IN  IF assertFullPathWithName(fullPath) # "ok" THEN Outcome("InvalidPath", f, {}, <<>>, <<>>)
        ELSE IF assertPodName(podName) # "ok"
             THEN Outcome(assertPodName(podName), f, {}, <<>>, <<>>)
        ELSE IF ~info.found THEN Outcome("PodNotFound", f, {}, <<PodFetch(f, t)>>, <<>>)
        ELSE IF ~raw.found THEN Outcome("NotFound", f, {}, <<PodFetch(f, t), fetch>>, <<>>)
        ELSE IF ~assertRawFileMetadata(raw.metadata)
             THEN Outcome("NotFile", f, {}, <<PodFetch(f, t), fetch>>, <<>>)
        ELSE Outcome("ok", f, {capsule}, <<PodFetch(f, t), fetch, IoUpload>>,
                     <<Reference(capsule, ENCRYPTED_REFERENCE_HEX_LENGTH)>>)

fileGetSharedInfoUnchecked(f, reference) ==
    Outcome(getSharedFileInfo(reference).result, f, {}, <<IoDownload>>,
            <<getSharedFileInfo(reference).meta>>)

fileGetSharedInfo(f, reference) ==
    IF assertEncryptedReference(reference) # "ok"
    THEN Outcome("InvalidReference", f, {}, <<>>, <<>>)
    ELSE Outcome(getSharedFileInfo(reference).result, f, {}, <<IoDownload>>,
                 <<getSharedFileInfo(reference).meta>>)

\* the metadata of a shared file re-targeted to the pod, path and name it is saved under
updateFileMetadata(meta, podName, parentPath, fileName) ==
    [meta EXCEPT !.podName = podName, !.filePath = parentPath, !.fileName = fileName]

\* name = "" stands for no name given
fileSaveSharedMetadataFirst(f, t, podName, parentPath, reference, name) ==
    LET shared == fileGetSharedInfoUnchecked(f, reference)
        info == getWritablePodInfo(f, t, podName)
        fileName == IF name # "" THEN name ELSE shared.data[1].file_name
        meta == updateFileMetadata(rawFileMetadataToFileMetadata(shared.data[1]),
                                   podName, parentPath, fileName)
        fullPath == combine(parentPath, fileName)
        written == writeFeedData(f, info.owner, fullPath, getFileMetadataRawBytes(meta),
                                 info.key, DefaultEpoch(t))
        added == addEntryToParent(written, t, info.owner, info.key, parentPath, fileName,
                                  TRUE, <<IoWrite(info.owner, fullPath, DefaultEpoch(t))>>)
    IN  IF assertPodName(podName) # "ok" \/ assertEncryptedReference(reference) # "ok"
           \/ shared.result # "ok" \/ ~info.found
        THEN Outcome("InvalidShareInfo", f, {}, <<>>, <<>>)
        ELSE [added EXCEPT !.feed = IF added.result = "ok" THEN @ ELSE written]

fileSaveShared(f, t, podName, parentPath, reference, name) ==
    LET shared == fileGetSharedInfo(f, reference)
        info == getWritablePodInfo(f, t, podName)
        fileName == IF name # "" THEN name ELSE shared.data[1].file_name
        meta == updateFileMetadata(rawFileMetadataToFileMetadata(shared.data[1]),
                                   podName, parentPath, fileName)
        fullPath == combine(parentPath, fileName)
        added == addEntryToDirectory(f, t, info.owner, info.key, parentPath, fileName, TRUE)
        io == shared.trace \o <<PodFetch(f, t)>>
    IN  IF assertPodName(podName) # "ok" THEN Outcome(assertPodName(podName), f, {}, <<>>, <<>>)
        ELSE IF shared.result # "ok" THEN Outcome(shared.result, f, {}, shared.trace, <<>>)
        ELSE IF ~info.found THEN Outcome("PodNotFound", f, {}, io, <<>>)
        ELSE IF added.result # "ok" THEN Outcome(added.result, f, {}, io \o added.trace, <<>>)
        ELSE Outcome("ok",
                     writeFeedData(added.feed, info.owner, fullPath,
                                   getFileMetadataRawBytes(meta), info.key, DefaultEpoch(t)),
                     {},
                     io \o added.trace \o <<IoWrite(info.owner, fullPath, DefaultEpoch(t))>>,
                     <<>>)

----------------------------------------------------------------------------
(* Sharing of pods *)

\* JSON of the share information of a pod
createPodShareInfo(podName, podAddress, userAddress, password) ==
    [kind |-> "podShare", podName |-> podName, podAddress |-> podAddress,
     userAddress |-> userAddress, password |-> password]

getSharedPodInfo(reference) ==
    IF reference.blob.kind = "none" THEN [result |-> "NotFound", info |-> NoBlob]
    ELSE IF reference.blob.kind # "podShare"
         THEN [result |-> "InvalidShareInfo", info |-> NoBlob]
    ELSE [result |-> "ok", info |-> reference.blob]

\* the shared pods of the pod list; a list written without them has none
getSharedPodsList(f, t) ==
    LET a == getFeedData(f, ROOT_OWNER, POD_TOPIC, t)
    IN  IF a.found /\ "sharedPods" \in DOMAIN a.data THEN a.data.sharedPods ELSE <<>>

\* the pod list with its shared pods
podListWithSharedToBytes(pods, sharedPods) ==
    [type |-> "pods", pods |-> pods, sharedPods |-> sharedPods]

assertSharedPodNameUnchecked(sharedPods, name) == "ok"

assertSharedPodNameAvailable(sharedPods, name) ==
    IF HasPod(sharedPods, name) THEN "AlreadyExists" ELSE "ok"

\* name = <<>> stands for no name given
podSaveShared(f, t, reference, name) ==
    LET shared == getSharedPodInfo(reference)
        info == getPodsList(f, t)
        fetch == IoLookup(ROOT_OWNER, POD_TOPIC, info.epoch)
        sharedPods == getSharedPodsList(f, t)
        podName == IF name # <<>> THEN name ELSE shared.info.podName
        newPod == [name |-> podName, password |-> shared.info.password,
                   address |-> shared.info.podAddress]
        epoch == FirstOrNextEpoch(info, t)
    IN  IF assertEncryptedReference(reference) # "ok"
        THEN Outcome("InvalidReference", f, {}, <<>>, <<>>)
        ELSE IF shared.result # "ok" THEN Outcome(shared.result, f, {}, <<IoDownload>>, <<>>)
        ELSE IF assertSharedPodNameAvailable(sharedPods, podName) # "ok"
             THEN Outcome("AlreadyExists", f, {}, <<IoDownload, fetch>>, <<>>)
        ELSE Outcome("ok",
                     writeFeedDataRaw(f, ROOT_OWNER, POD_TOPIC,
                                      podListWithSharedToBytes(info.pods,
                                                               Append(sharedPods, newPod)),
                                      epoch),
                     {}, <<IoDownload, fetch, IoWrite(ROOT_OWNER, POD_TOPIC, epoch)>>,
                     <<newPod>>)

----------------------------------------------------------------------------
(* Inputs *)

MaxBlockSize == 2

DirectoryPaths == {<<"a">>, <<"a", "b">>}
FilePaths == {<<"f">>, <<"a", "f">>}
AllPaths == DirectoryPaths \cup FilePaths
ContentPaths == {<<"f">>}

\* one payload of every length up to MaxLen
Payloads == {[i \in 1..n |-> i % 2] : n \in 0..MaxLen}
BlockSizes == 1..MaxBlockSize

\* a file shared by another client, stored compressed
ForeignFile ==
    [type |-> "file", version |-> META_VERSION, file_path |-> Root, file_name |-> "z",
     file_size |-> 1, block_size |-> 1, content_type |-> "", compression |-> "gzip",
     creation_time |-> 0, access_time |-> 0, modification_time |-> 0,
     file_inode_reference |-> PlainDoc(blocksToManifest(<<>>)),
     pod_name |-> <<"z">>, shared_password |-> bytesToHex(0)]

\* references that no share of this account returned: a plain reference, one a
\* character short, one that resolves to nothing, one to bytes that are no share
\* information, and the share of a compressed file
OtherReferences ==
    {Reference(createFileShareInfo(ForeignFile), REFERENCE_HEX_LENGTH),
     Reference(createFileShareInfo(ForeignFile), ENCRYPTED_REFERENCE_HEX_LENGTH - 1),
     Reference(NoBlob, ENCRYPTED_REFERENCE_HEX_LENGTH),
     Reference(BytesBlob(<<1>>), ENCRYPTED_REFERENCE_HEX_LENGTH),
     Reference(createFileShareInfo(ForeignFile), ENCRYPTED_REFERENCE_HEX_LENGTH)}

SharedNames == {"", "g"}

\* pods shared by other accounts, each with its address and password, as the
\* references to their share information, and references to no such thing
PodReferences ==
    {Reference(createPodShareInfo(<<"s">>, 7, 70, 17), ENCRYPTED_REFERENCE_HEX_LENGTH),
     Reference(createPodShareInfo(<<"t">>, 8, 80, 18), ENCRYPTED_REFERENCE_HEX_LENGTH),
     Reference(createPodShareInfo(<<"s">>, 7, 70, 17), REFERENCE_HEX_LENGTH),
     Reference(NoBlob, ENCRYPTED_REFERENCE_HEX_LENGTH)}

SharedPodNames == {<<>>, <<"g">>}

----------------------------------------------------------------------------
(* The state machine *)

NoFeed == [a \in {} |-> 0]

\* the writers that call concurrently, and a writer that has not called yet
Writers == {1, 2}
NoWrite == [topic |-> <<>>, doc |-> [type |-> "none"], epoch |-> NoEpoch]
Idle == [op |-> "none", path |-> <<>>, pc |-> "idle", owner |-> 0, key |-> 0,
         pending |-> NoWrite, result |-> "none", refused |-> <<>>]
NoCalls == [w \in Writers |-> Idle]

\* pods: the successful pod creates and deletes in order; files: the successful
\* uploads; dirs: the directories created and not deleted since; refused: the
\* directories whose creation failed for want of a parent; writes: the versions
\* written to the topic of the feed on its own; shares: the files shared, each
\* with the reference share returned
NoHistory ==
    [pods |-> <<>>, files |-> {}, dirs |-> {}, refused |-> {}, writes |-> <<>>, shares |-> {}]

Init ==
    /\ now = 0
    /\ feed = NoFeed
    /\ blobs = {}
    /\ steps = 0
    /\ last = [op |-> "none", pod |-> <<>>, path |-> <<>>, payload |-> <<>>, bs |-> 0,
               result |-> "none", trace |-> <<>>, data |-> <<>>, before |-> NoFeed, at |-> 0,
               prior |-> NoHistory]
    /\ hist = NoHistory
    /\ calls = NoCalls

\* the history after an operation
Record(op, pod, path, payload, bs, out) ==
    IF op = "directoryCreate" /\ out.result = "ParentNotFound"
    THEN [hist EXCEPT !.refused = @ \cup {path}]
    ELSE IF out.result # "ok" THEN hist
    ELSE IF op \in {"podCreate", "podDelete"}
         THEN [hist EXCEPT !.pods = Append(@, [op |-> op, name |-> pod])]
    ELSE IF op = "fileUploadData"
         THEN [hist EXCEPT !.files = @ \cup {[pod |-> pod, path |-> path,
                                              data |-> payload, bs |-> bs]}]
    ELSE IF op = "directoryCreate" THEN [hist EXCEPT !.dirs = @ \cup {path}]
    ELSE IF op = "directoryDelete" THEN [hist EXCEPT !.dirs = @ \ {path}]
    ELSE IF op = "fileShare"
         THEN [hist EXCEPT !.shares = @ \cup {[pod |-> pod, path |-> path,
                                               reference |-> out.data[1]]}]
    ELSE IF op = "feedWrite"
         THEN [hist EXCEPT !.writes = Append(@, [value |-> payload[1], at |-> now,
                                                  level |-> out.trace[2].level,
                                                  time |-> out.trace[2].time])]
    ELSE hist

\* a public operation ran to its end with outcome `out`
Call(op, pod, path, payload, bs, out) ==
    /\ steps < MaxSteps
    /\ steps' = steps + 1
    /\ feed' = out.feed
    /\ blobs' = blobs \cup out.blobs
    /\ last' = [op |-> op, pod |-> pod, path |-> path, payload |-> payload, bs |-> bs,
                result |-> out.result, trace |-> out.trace, data |-> out.data,
                before |-> feed, at |-> now, prior |-> hist]
    /\ hist' = Record(op, pod, path, payload, bs, out)
    /\ UNCHANGED <<now, calls>>

Tick ==
    /\ now < MaxTime
    /\ now' = now + 1
    /\ UNCHANGED <<feed, blobs, steps, last, hist, calls>>

PodCreate(names) ==
    \E name \in names :
        Call("podCreate", name, <<>>, <<>>, 0, podCreate(feed, now, name))

PodDelete(names) ==
    \E name \in names :
        Call("podDelete", name, <<>>, <<>>, 0, podDelete(feed, now, name))

DirectoryCreate(pods, paths) ==
    \E pod \in pods, path \in paths :
        Call("directoryCreate", pod, path, <<>>, 0, directoryCreate(feed, now, pod, path))

DirectoryDelete(pods, paths) ==
    \E pod \in pods, path \in paths :
        Call("directoryDelete", pod, path, <<>>, 0, directoryDelete(feed, now, pod, path))

FileUploadData(pods, paths, payloads, sizes) ==
    \E pod \in pods, path \in paths, data \in payloads, bs \in sizes :
        Call("fileUploadData", pod, path, data, bs,
             fileUploadData(feed, now, pod, path, data, bs))

FileDownloadData(pods, paths) ==
    \E pod \in pods, path \in paths :
        Call("fileDownloadData", pod, path, <<>>, 0, fileDownloadData(feed, now, pod, path))

FileDelete(pods, paths) ==
    \E pod \in pods, path \in paths :
        Call("fileDelete", pod, path, <<>>, 0, fileDelete(feed, now, pod, path))

FileShare(pods, paths) ==
    \E pod \in pods, path \in paths :
        Call("fileShare", pod, path, <<>>, 0, fileShare(feed, now, pod, path))

\* the reference is one a share returned or any other
FileSaveShared(pods, parents, names) ==
    \E pod \in pods, parent \in parents, name \in names,
       reference \in {sh.reference : sh \in hist.shares} \cup OtherReferences :
        Call("fileSaveShared", pod, parent, <<reference, name>>, 0,
             fileSaveShared(feed, now, pod, parent, reference, name))

UploadData(pods, paths, payloads, sizes) ==
    \E pod \in pods, path \in paths, data \in payloads, bs \in sizes :
        Call("uploadData", pod, path, data, bs, uploadData(feed, now, pod, path, data, bs))

FileGetSharedInfo ==
    \E reference \in {sh.reference : sh \in hist.shares} \cup OtherReferences :
        Call("fileGetSharedInfo", <<>>, <<>>, <<reference, "">>, 0,
             fileGetSharedInfo(feed, reference))

PodSaveShared ==
    \E reference \in PodReferences, name \in SharedPodNames :
        Call("podSaveShared", name, <<>>, <<reference>>, 0,
             podSaveShared(feed, now, reference, name))

\* the whole client
Next ==
    \/ Tick
    \/ PodCreate(PodNameInputs)
    \/ PodDelete(ValidPodNames)
    \/ DirectoryCreate(ValidPodNames, AllPaths)
    \/ DirectoryDelete(ValidPodNames, AllPaths)
    \/ FileUploadData(ValidPodNames, AllPaths, Payloads, BlockSizes)
    \/ FileDownloadData(ValidPodNames, AllPaths)
    \/ FileDelete(ValidPodNames, AllPaths)
    \/ FileShare(ValidPodNames, AllPaths)
    \/ FileSaveShared(ValidPodNames, {Root} \cup DirectoryPaths, SharedNames)
    \/ FileGetSharedInfo
    \/ PodSaveShared
    \/ UploadData(ValidPodNames, AllPaths, Payloads, BlockSizes)

Spec == Init /\ [][Next]_vars

\* the pod list of one account
NextPods ==
    \/ Tick
    \/ PodCreate(PodNameInputs)
    \/ PodDelete(ValidPodNames)

SpecPods == Init /\ [][NextPods]_vars

\* the account after its first pod was created
InitPod ==
    /\ now = 0
    /\ feed = podCreate(NoFeed, 0, <<"p">>).feed
    /\ blobs = {}
    /\ steps = 1
    /\ last = [op |-> "podCreate", pod |-> <<"p">>, path |-> <<>>, payload |-> <<>>,
               bs |-> 0, result |-> "ok", trace |-> podCreate(NoFeed, 0, <<"p">>).trace,
               data |-> <<>>, before |-> NoFeed, at |-> 0, prior |-> NoHistory]
    /\ hist = [NoHistory EXCEPT !.pods = <<[op |-> "podCreate", name |-> <<"p">>]>>]
    /\ calls = NoCalls

\* the directory tree of one pod
NextTree ==
    \/ Tick
    \/ DirectoryCreate({<<"p">>}, AllPaths)
    \/ DirectoryDelete({<<"p">>}, AllPaths)
    \/ FileUploadData({<<"p">>}, AllPaths, {<<1, 0, 1>>}, {2})
    \/ FileDownloadData({<<"p">>}, AllPaths)
    \/ FileDelete({<<"p">>}, AllPaths)

SpecTree == InitPod /\ [][NextTree]_vars

\* the content of the files of one pod
NextFile ==
    \/ Tick
    \/ FileUploadData({<<"p">>}, ContentPaths, Payloads, BlockSizes)
    \/ FileDownloadData({<<"p">>}, ContentPaths)

SpecFile == InitPod /\ [][NextFile]_vars

\* two pods with their own wallets and passwords, the sharer's and the receiver's;
\* the operations are counted from here
InitShare ==
    /\ now = 0
    /\ feed = podCreate(podCreate(NoFeed, 0, <<"p">>).feed, 0, <<"q">>).feed
    /\ blobs = {}
    /\ steps = 0
    /\ last = [op |-> "podCreate", pod |-> <<"q">>, path |-> <<>>, payload |-> <<>>,
               bs |-> 0, result |-> "ok",
               trace |-> podCreate(podCreate(NoFeed, 0, <<"p">>).feed, 0, <<"q">>).trace,
               data |-> <<>>, before |-> podCreate(NoFeed, 0, <<"p">>).feed, at |-> 0,
               prior |-> [NoHistory EXCEPT !.pods = <<[op |-> "podCreate", name |-> <<"p">>]>>]]
    /\ hist = [NoHistory EXCEPT !.pods = <<[op |-> "podCreate", name |-> <<"p">>],
                                           [op |-> "podCreate", name |-> <<"q">>]>>]
    /\ calls = NoCalls

\* a file of one pod shared with the other
NextShare ==
    \/ Tick
    \/ FileUploadData({<<"p">>}, ContentPaths, {<<1, 0, 1>>}, {2})
    \/ FileShare({<<"p">>}, ContentPaths \cup {Root})
    \/ FileSaveShared({<<"q">>, <<>>}, {Root}, SharedNames)
    \/ FileGetSharedInfo
    \/ FileDownloadData({<<"p">>, <<"q">>}, {<<"f">>, <<"g">>, <<"z">>})

SpecShare == InitShare /\ [][NextShare]_vars

\* the shared pods of an account that has a pod of its own
NextSharedPods ==
    \/ Tick
    \/ PodSaveShared

SpecSharedPods == InitPod /\ [][NextSharedPods]_vars

\* arguments that pass the checks and arguments that do not
CheckedPodNames == {<<"p">>, <<>>, <<"p", ",", "q">>}
CheckedDirectoryPaths == {<<"a">>, <<"a", "">>, Root}
CheckedFilePaths == {<<"f">>, Root}

\* the operations on one pod, called with valid and with invalid names and paths
NextChecks ==
    \/ Tick
    \/ PodCreate({<<>>, LongPodName})
    \/ DirectoryCreate(CheckedPodNames, CheckedDirectoryPaths)
    \/ DirectoryDelete({<<>>}, {<<"a">>})
    \/ FileUploadData(CheckedPodNames, CheckedFilePaths, {<<1>>}, {1})
    \/ FileDownloadData(CheckedPodNames, CheckedFilePaths)
    \/ FileDelete(CheckedPodNames, CheckedFilePaths)
    \/ FileShare(CheckedPodNames, CheckedFilePaths)
    \/ FileSaveShared({<<>>}, {Root}, {""})

SpecChecks == InitPod /\ [][NextChecks]_vars

\* the operations on one pod that write a parent's listing and a child's metadata
NextOrder ==
    \/ Tick
    \/ DirectoryCreate({<<"p">>}, DirectoryPaths)
    \/ FileUploadData({<<"p">>}, FilePaths, {<<1>>}, {1})
    \/ UploadData({<<"p">>}, FilePaths, {<<1>>}, {1})
    \/ FileDelete({<<"p">>}, {<<"f">>})
    \/ FileShare({<<"p">>}, {<<"f">>})
    \/ FileSaveShared({<<"p">>}, {Root, <<"a">>}, {"g"})

SpecOrder == InitPod /\ [][NextOrder]_vars

----------------------------------------------------------------------------
(* What the operations are observed to do *)

\* list() now, and list() when the last operation was called
PodsNow == getPodsList(feed, now).pods
PodsBefore == getPodsList(last.before, last.at).pods

WroteNothing ==
    /\ feed = last.before
    /\ \A i \in 1..Len(last.trace) : last.trace[i].kind # "write"

NewChunks == DOMAIN feed \ DOMAIN last.before

OldChunksKept == \A a \in DOMAIN last.before : a \in DOMAIN feed /\ feed[a] = last.before[a]

OnlyCreates == \A i \in 1..Len(hist.pods) : hist.pods[i].op = "podCreate"

InvalidPodName(name) ==
    \/ Len(name) = 0
    \/ Len(name) > MAX_POD_NAME_LENGTH
    \/ \E i \in 1..Len(name) : name[i] = ","

\* C1: after k successful creates of distinct names and no delete, list() is the
\* k pods in creation order, the i-th with index i; with no pod list it is empty.
C1_ListAfterCreates ==
    OnlyCreates =>
        PodsNow = [i \in 1..Len(hist.pods) |-> [name |-> hist.pods[i].name, index |-> i]]

C1_Witness ==
    /\ OnlyCreates
    /\ Len(hist.pods) = 3
    /\ Len(PodsNow) = 3
    /\ PodsNow[1].index = 1

\* C2: create of a name that is in the pod list fails with 'already exists',
\* writes neither the pod list nor a root directory, and list() is as before.
C2_DuplicateCreateRefused ==
    (last.op = "podCreate" /\ ~InvalidPodName(last.pod) /\ HasPod(PodsBefore, last.pod))
        => /\ last.result = "AlreadyExists"
           /\ WroteNothing
           /\ PodsNow = PodsBefore

C2_Witness ==
    /\ last.op = "podCreate"
    /\ last.result = "AlreadyExists"
    /\ Len(PodsNow) = 2

\* C3: create rejects an empty name, a name longer than the maximum and a name
\* with a comma before the pod list is fetched or anything is written.
C3_InvalidNameRejectedFirst ==
    (last.op = "podCreate" /\ InvalidPodName(last.pod))
        => /\ Len(last.pod) = 0 => last.result = "TooShort"
           /\ Len(last.pod) > MAX_POD_NAME_LENGTH => last.result = "TooLong"
           /\ last.pod = <<"p", ",", "q">> => last.result = "HasComma"
           /\ last.result \in {"TooShort", "TooLong", "HasComma"}
           /\ last.trace = <<>>
           /\ feed = last.before
           /\ PodsNow = PodsBefore

C3_Witness ==
    /\ last.op = "podCreate"
    /\ last.result = "HasComma"
    /\ last.trace = <<>>
    /\ Len(PodsNow) = 1

\* C4: delete of a name that is not in the pod list fails with 'does not exist'
\* and writes nothing: list() is as before.
C4_DeleteOfMissingPodRefused ==
    (last.op = "podDelete" /\ ~HasPod(PodsBefore, last.pod))
        => /\ last.result = "NotFound"
           /\ WroteNothing
           /\ PodsNow = PodsBefore

C4_Witness ==
    /\ last.op = "podDelete"
    /\ last.result = "NotFound"
    /\ Len(PodsNow) = 2

\* C6: delete of a listed pod removes that pod alone, keeps the name, index and
\* order of the others, and writes one new version of the pod list and nothing
\* under the deleted pod's own wallet.
C6_DeleteRemovesOnePod ==
    (last.op = "podDelete" /\ last.result = "ok")
        => /\ HasPod(PodsBefore, last.pod)
           /\ PodsNow = SelectSeq(PodsBefore, LAMBDA p : p.name # last.pod)
           /\ Len(PodsNow) = Len(PodsBefore) - 1
           /\ OldChunksKept
           /\ Cardinality(NewChunks) = 1
           /\ \A a \in NewChunks : a[1] = ROOT_OWNER /\ a[2] = POD_TOPIC
           /\ \A i \in 1..Len(last.trace) :
                  last.trace[i].kind = "write" =>
                      last.trace[i].owner = ROOT_OWNER /\ last.trace[i].topic = POD_TOPIC

C6_Witness ==
    /\ last.op = "podDelete"
    /\ last.result = "ok"
    /\ Len(PodsBefore) = 3
    /\ PodsBefore[1].name = last.pod
    /\ Len(PodsNow) = 2
    /\ PodsNow[1].index = 2

\* the pod of the last operation, and a path's record and listing in it
PodBefore == getWritablePodInfo(last.before, last.at, last.pod)
PodNow == getWritablePodInfo(feed, now, last.pod)
RecordBefore(path) ==
    getRawMetadata(last.before, PodBefore.owner, path, PodBefore.key, last.at)
RecordNow(path) == getRawMetadata(feed, PodNow.owner, path, PodNow.key, now)
DirectoryBefore(path) ==
    RecordBefore(path).found /\ assertRawDirectoryMetadata(RecordBefore(path).metadata)
DirectoryNow(path) ==
    RecordNow(path).found /\ assertRawDirectoryMetadata(RecordNow(path).metadata)
ListingBefore(path) ==
    IF DirectoryBefore(path) THEN RecordBefore(path).metadata.fileOrDirNames ELSE <<>>
ListingNow(path) ==
    IF DirectoryNow(path) THEN RecordNow(path).metadata.fileOrDirNames ELSE <<>>
Entries(names, item) == Cardinality({i \in 1..Len(names) : names[i] = item})

\* C5: Directory.delete and File.delete of a path whose entry is not in the
\* parent's listing fail with NotFound, write no new version of the parent and
\* leave what a read of the parent returns as it was.
C5_DeleteOfUnlistedRefused ==
    (/\ last.op \in {"directoryDelete", "fileDelete"}
     /\ PodBefore.found
     /\ DirectoryBefore(ParentOf(last.path))
     /\ ~Listed(ListingBefore(ParentOf(last.path)),
                <<Token(last.op = "fileDelete"), NameOf(last.path)>>))
        => /\ last.result = "NotFound"
           /\ WroteNothing
           /\ RecordNow(ParentOf(last.path)) = RecordBefore(ParentOf(last.path))

\* C8: create of a directory whose parent has no directory metadata fails with
\* 'Parent directory does not exist' and writes nothing; once the parent is a
\* directory, create of a child that has no record succeeds and the child is
\* a directory listed by its parent.
C8_ParentFirst ==
    (last.op = "directoryCreate" /\ PodBefore.found /\ Len(last.path) >= 2)
        => /\ ~DirectoryBefore(ParentOf(last.path))
                => /\ last.result = "ParentNotFound"
                   /\ WroteNothing
                   /\ ~RecordNow(last.path).found
           /\ (DirectoryBefore(ParentOf(last.path)) /\ ~RecordBefore(last.path).found)
                => /\ last.result = "ok"
                   /\ DirectoryNow(last.path)
                   /\ Entries(ListingNow(ParentOf(last.path)),
                              <<DIRECTORY_TOKEN, NameOf(last.path)>>) = 1

C8_Witness ==
    /\ last.op = "directoryCreate"
    /\ last.path = <<"a", "b">>
    /\ last.result = "ok"
    /\ <<"a", "b">> \in last.prior.refused
    /\ <<"a">> \in hist.dirs
    /\ DirectoryNow(<<"a", "b">>)

\* C9: create of a directory that was created and not deleted since fails with
\* AlreadyExists, also when it has children, writes nothing, and its parent
\* lists the name exactly once.
C9_DuplicateDirectoryRefused ==
    (last.op = "directoryCreate" /\ last.path \in last.prior.dirs)
        => /\ last.result = "AlreadyExists"
           /\ WroteNothing
           /\ Entries(ListingNow(ParentOf(last.path)),
                      <<DIRECTORY_TOKEN, NameOf(last.path)>>) = 1

C9_Witness ==
    /\ last.op = "directoryCreate"
    /\ last.path = <<"a">>
    /\ last.result = "AlreadyExists"
    /\ <<"a", "b">> \in last.prior.dirs
    /\ Listed(ListingNow(<<"a">>), <<DIRECTORY_TOKEN, "b">>)

\* the uploads that succeeded at the path of the last operation before it ran
UploadedBefore == {x \in last.prior.files : x.pod = last.pod /\ x.path = last.path}

\* C7: downloadData of a path that was uploaded with payload p and block size b
\* succeeds and returns bytes identical to p.
C7_UploadDownloadRoundTrip ==
    (last.op = "fileDownloadData" /\ UploadedBefore # {})
        => /\ last.result = "ok"
           /\ \A x \in UploadedBefore : last.data = x.data

\* C10: uploadData to a path at which a file was already uploaded fails with
\* AlreadyExists, the parent lists the file once, the file's metadata has no new
\* version, and downloadData returns the content of the first upload.
C10_DuplicateUploadRefused ==
    (last.op = "fileUploadData" /\ UploadedBefore # {})
        => /\ last.result = "AlreadyExists"
           /\ feed = last.before
           /\ Entries(ListingNow(ParentOf(last.path)), <<FILE_TOKEN, NameOf(last.path)>>) = 1
           /\ RecordNow(last.path) = RecordBefore(last.path)
           /\ \A x \in UploadedBefore :
                  fileDownloadData(feed, now, last.pod, last.path).data = x.data

----------------------------------------------------------------------------
(* One feed on its own: versions of one topic of one owner.  The levels are *)
(* scaled down: the coarsest level is TopLevel and the clock stays inside    *)
(* the one window of that level, as the clock of the program stays inside    *)
(* the one window of HIGHEST_LEVEL.                                          *)

TopLevel == 2
FeedMaxTime == Pow2(TopLevel) - 1
FEED_TOPIC == <<"topic">>

RawData(v) == [type |-> "raw", value |-> v]

\* a read of the topic: getFeedData
feedRead(top, f, t, owner, topic) ==
    LET e == lookupUnder(top, f, owner, topic, t)
    IN  IF Found(e)
        THEN Outcome("ok", f, {}, <<IoLookup(owner, topic, e)>>,
                     <<f[Addr(owner, topic, e)].value>>)
        ELSE Outcome("NotFound", f, {}, <<IoLookup(owner, topic, e)>>, <<>>)

\* a rewrite of the topic: getFeedData, then writeFeedDataRaw at the epoch after
\* the one found, or at the coarsest level when nothing was found
feedWrite(top, f, t, owner, topic, data) ==
    LET e == lookupUnder(top, f, owner, topic, t)
        next == IF Found(e) THEN nextEpochUnder(top, e, t) ELSE Epoch(top, t)
    IN  Outcome("ok", writeFeedDataRaw(f, owner, topic, data, next), {},
                <<IoLookup(owner, topic, e), IoWrite(owner, topic, next)>>, <<>>)

FeedTick ==
    /\ now < FeedMaxTime
    /\ now' = now + 1
    /\ UNCHANGED <<feed, blobs, steps, last, hist, calls>>

\* version N + 1 after N writes
FeedWrite ==
    Call("feedWrite", <<>>, FEED_TOPIC, <<Len(hist.writes) + 1>>, 0,
         feedWrite(TopLevel, feed, now, ROOT_OWNER, FEED_TOPIC,
                   RawData(Len(hist.writes) + 1)))

FeedRead ==
    Call("feedRead", <<>>, FEED_TOPIC, <<>>, 0,
         feedRead(TopLevel, feed, now, ROOT_OWNER, FEED_TOPIC))

NextFeed ==
    \/ FeedTick
    \/ FeedWrite
    \/ FeedRead

SpecFeed == Init /\ [][NextFeed]_vars

Writes == hist.writes
LastWrite == Writes[Len(Writes)]
IncreasingTimestamps == \A i \in 1..(Len(Writes) - 1) : Writes[i].at < Writes[i + 1].at

\* C11: after N >= 1 writes with increasing timestamps, each at the epoch after
\* the one its own lookup found, a lookup at the current time returns version N
\* and the epoch version N was written under; with no write it fails NotFound.
C11_LookupReturnsLatest ==
    (last.op = "feedRead" /\ IncreasingTimestamps)
        => /\ Len(Writes) = 0 => last.result = "NotFound"
           /\ Len(Writes) >= 1
                => /\ last.result = "ok"
                   /\ last.data = <<Len(Writes)>>
                   /\ last.trace[1].level = LastWrite.level
                   /\ last.trace[1].time = LastWrite.time

----------------------------------------------------------------------------

\* the entry the last delete is about, and its parent
DeletedItem == <<Token(last.op = "fileDelete"), NameOf(last.path)>>
DeletedFrom == ParentOf(last.path)

\* C12: delete of a listed file or directory removes its token-prefixed entry
\* from the parent's listing and nothing else: the siblings stay, in order, and
\* the parent read afterwards no longer lists the item.
C12_DeleteRemovesOneEntry ==
    (/\ last.op \in {"directoryDelete", "fileDelete"}
     /\ PodBefore.found
     /\ DirectoryBefore(DeletedFrom)
     /\ Listed(ListingBefore(DeletedFrom), DeletedItem))
        => /\ last.result = "ok"
           /\ ~Listed(ListingNow(DeletedFrom), DeletedItem)
           /\ Len(ListingNow(DeletedFrom)) = Len(ListingBefore(DeletedFrom)) - 1
           /\ \E k \in 1..Len(ListingBefore(DeletedFrom)) :
                  /\ ListingBefore(DeletedFrom)[k] = DeletedItem
                  /\ ListingNow(DeletedFrom) =
                         SubSeq(ListingBefore(DeletedFrom), 1, k - 1)
                            \o SubSeq(ListingBefore(DeletedFrom), k + 1,
                                      Len(ListingBefore(DeletedFrom)))

C12_Witness ==
    /\ last.op = "fileDelete"
    /\ last.path = <<"f">>
    /\ last.result = "ok"
    /\ ListingBefore(Root) = <<<<FILE_TOKEN, "f">>, <<DIRECTORY_TOKEN, "a">>>>
    /\ ListingNow(Root) = <<<<DIRECTORY_TOKEN, "a">>>>

----------------------------------------------------------------------------
(* Sharing *)

\* the shares whose reference the last operation was given
SharesGiven ==
    IF last.op = "fileSaveShared"
    THEN {sh \in last.prior.shares : sh.reference = last.payload[1]}
    ELSE {}

\* the name the last saveShared saves under: the one supplied, or the original
SavedName(sh) == IF last.payload[2] # "" THEN last.payload[2] ELSE NameOf(sh.path)

\* the file record of a path of a pod, as the pod's owner reads it now
FileRecordNow(podName, path) ==
    getRawMetadata(feed, getWritablePodInfo(feed, now, podName).owner, path,
                   getWritablePodInfo(feed, now, podName).key, now)

\* the payload uploaded to a path of a pod
ContentOf(podName, path) == {x.data : x \in {y \in hist.files : y.pod = podName /\ y.path = path}}

NoUpload == \A i \in 1..Len(last.trace) : last.trace[i].kind # "upload"

\* what saveShared of the share sh leaves in the receiving pod, but for the content
SavedAs(sh) ==
    LET saved == RecordNow(combine(last.path, SavedName(sh)))
        original == FileRecordNow(sh.pod, sh.path)
    IN  /\ last.result = "ok"
        /\ saved.found /\ assertRawFileMetadata(saved.metadata)
        /\ original.found
        /\ saved.metadata.file_size = original.metadata.file_size
        /\ saved.metadata.block_size = original.metadata.block_size
        /\ saved.metadata.content_type = original.metadata.content_type
        /\ saved.metadata.file_inode_reference = original.metadata.file_inode_reference
        /\ saved.metadata.file_path = last.path
        /\ saved.metadata.file_name = SavedName(sh)
        /\ NoUpload
        /\ ListingNow(last.path) = Append(ListingBefore(last.path), <<FILE_TOKEN, SavedName(sh)>>)

\* C13: when A shared a file and a different identity B saves the reference under
\* a free name of a directory of its pod, B's pod has a file with the size, block
\* size, content type and blocks reference of A's, its path the directory and its
\* name the supplied or the original one; nothing is uploaded, B's listing gains
\* that one file entry, and B's downloadData of it returns the content A uploaded.
C13_ShareRoundTrip ==
    \A sh \in SharesGiven :
        (/\ last.op = "fileSaveShared"
         /\ last.pod # sh.pod
         /\ PodBefore.found
         /\ DirectoryBefore(last.path)
         /\ ~RecordBefore(combine(last.path, SavedName(sh))).found)
            => /\ SavedAs(sh)
               /\ fileDownloadData(feed, now, last.pod,
                                    combine(last.path, SavedName(sh))).result = "ok"
               /\ \A data \in ContentOf(sh.pod, sh.path) :
                      fileDownloadData(feed, now, last.pod,
                                       combine(last.path, SavedName(sh))).data = data

\* C15: share of a file of a pod succeeds and returns a reference of 128 hex
\* characters to a stored capsule that holds the file's raw metadata with the pod
\* password in hex as shared_password; it writes no feed chunk: the file's
\* metadata and the parent's listing are as before.
C15_ShareIsReadOnly ==
    (/\ last.op = "fileShare"
     /\ PodBefore.found
     /\ RecordBefore(last.path).found
     /\ assertRawFileMetadata(RecordBefore(last.path).metadata))
        => /\ last.result = "ok"
           /\ last.data[1].hexLength = ENCRYPTED_REFERENCE_HEX_LENGTH
           /\ last.data[1].blob \in blobs
           /\ last.data[1].blob.kind = "fileShare"
           /\ last.data[1].blob.meta =
                  [RecordBefore(last.path).metadata EXCEPT
                      !.shared_password = bytesToHex(PodBefore.key)]
           /\ WroteNothing
           /\ RecordNow(last.path) = RecordBefore(last.path)
           /\ ListingNow(ParentOf(last.path)) = ListingBefore(ParentOf(last.path))

C15_Witness ==
    /\ last.op = "fileShare"
    /\ last.result = "ok"
    /\ last.path = <<"f">>
    /\ last.data[1].hexLength = 128
    /\ last.data[1].blob.meta.shared_password = bytesToHex(1)
    /\ last.data[1].blob.meta.file_size = 3
    /\ RecordNow(<<"f">>).metadata.shared_password = ""

SavedPaths == {<<"f">>, <<"g">>, <<"z">>}

\* C18: getSharedInfo, and saveShared into a pod of a valid name, of a reference
\* that is not 128 hex characters long fail with an invalid-reference error
\* before anything is fetched; and a saveShared that fails writes nothing: the
\* parent's listing and the metadata of the files are as before.
C18_MalformedReferenceRejectedFirst ==
    /\ (/\ last.op \in {"fileGetSharedInfo", "fileSaveShared"}
        /\ last.op = "fileSaveShared" => assertPodName(last.pod) = "ok"
        /\ last.payload[1].hexLength # ENCRYPTED_REFERENCE_HEX_LENGTH)
           => /\ last.result = "InvalidReference"
              /\ last.trace = <<>>
              /\ feed = last.before
    /\ (last.op = "fileSaveShared" /\ last.result # "ok")
           => /\ WroteNothing
              /\ ListingNow(last.path) = ListingBefore(last.path)
              /\ \A path \in SavedPaths : RecordNow(path) = RecordBefore(path)

C18_Witness ==
    /\ last.op = "fileSaveShared"
    /\ last.pod = <<"q">>
    /\ last.payload[1].hexLength = 127
    /\ last.result = "InvalidReference"
    /\ last.trace = <<>>
    /\ ListingNow(Root) = <<<<FILE_TOKEN, "f">>>>

\* the shared pods of the account now, and when the last operation was called
SharedPodsNow == getSharedPodsList(feed, now)
SharedPodsBefore == getSharedPodsList(last.before, last.at)

\* the share information the last saveShared of a pod was given
PodShareGiven == last.payload[1].blob

\* the name the last saveShared of a pod saves under
SavedPodName == IF last.pod # <<>> THEN last.pod ELSE PodShareGiven.podName

\* C14: saveShared of a reference to the share information of a pod adds one
\* shared pod with the name (supplied, or the shared one), password and address
\* to the shared pods and leaves the own pods as they are; under the name of a
\* shared pod it fails with AlreadyExists and changes nothing; so the same
\* reference under a new name adds a second shared pod of the same address.
C14_SaveSharedPod ==
    (/\ last.op = "podSaveShared"
     /\ assertEncryptedReference(last.payload[1]) = "ok"
     /\ PodShareGiven.kind = "podShare")
        => /\ PodsNow = PodsBefore
           /\ ~HasPod(SharedPodsBefore, SavedPodName)
                => /\ last.result = "ok"
                   /\ SharedPodsNow =
                          Append(SharedPodsBefore,
                                 [name |-> SavedPodName,
                                  password |-> PodShareGiven.password,
                                  address |-> PodShareGiven.podAddress])
           /\ HasPod(SharedPodsBefore, SavedPodName)
                => /\ last.result = "AlreadyExists"
                   /\ WroteNothing
                   /\ SharedPodsNow = SharedPodsBefore

C14_Witness ==
    /\ last.op = "podSaveShared"
    /\ last.result = "AlreadyExists"
    /\ Len(SharedPodsNow) = 2
    /\ SharedPodsNow[1].name = <<"s">>
    /\ SharedPodsNow[2].name = <<"g">>
    /\ SharedPodsNow[1].address = SharedPodsNow[2].address
    /\ Len(PodsNow) = 1

----------------------------------------------------------------------------
(* Order of the checks and of the I/O *)

\* the failures of the checks of a pod name, a path or a directory name
InvalidArgument == {"TooShort", "TooLong", "HasComma", "InvalidPath", "InvalidName"}

\* C16: an operation that fails a check of a name or of a path has sent no
\* request to the store before: no fetch and no write.
C16_ValidationBeforeIo ==
    last.result \in InvalidArgument => last.trace = <<>> /\ feed = last.before

Downloads == {i \in 1..Len(last.trace) : last.trace[i].kind = "download"}

\* C17: downloadData of a file whose metadata has a non-empty compression fails
\* with Unsupported and has fetched neither the manifest nor a block; of a path
\* with no metadata it fails with NotFound.
C17_CompressedUnsupported ==
    (last.op = "fileDownloadData" /\ PodBefore.found)
        => /\ ~RecordBefore(last.path).found => last.result = "NotFound"
           /\ (/\ RecordBefore(last.path).found
               /\ assertRawFileMetadata(RecordBefore(last.path).metadata)
               /\ RecordBefore(last.path).metadata.compression # "")
                => /\ last.result = "Unsupported"
                   /\ Downloads = {}
                   /\ last.data = <<>>
                   /\ WroteNothing

C17_Witness ==
    /\ last.op = "fileDownloadData"
    /\ last.result = "Unsupported"
    /\ RecordNow(last.path).metadata.compression = "gzip"
    /\ Downloads = {}
    /\ Len(last.trace) = 2

\* the operations that list a child in its parent and write the child's metadata
Creating == {"directoryCreate", "fileUploadData", "uploadData", "fileSaveShared"}

\* the path of the child the last operation creates
CreatedPath ==
    IF last.op = "fileSaveShared"
    THEN combine(last.path,
                 IF last.payload[2] # "" THEN last.payload[2]
                 ELSE last.payload[1].blob.meta.file_name)
    ELSE last.path

\* the positions in the I/O of the last operation of the writes to a topic
WritesTo(topic) ==
    {i \in 1..Len(last.trace) : last.trace[i].kind = "write" /\ last.trace[i].topic = topic}

AllWrites == {i \in 1..Len(last.trace) : last.trace[i].kind = "write"}

\* C19: in a create, an upload or a saveShared that succeeds the parent's listing
\* is written before the child's metadata, which is written last; in one that
\* fails nothing is written to the child's topic: the child's metadata is written
\* only after addEntryToDirectory succeeded.
C19_ParentWrittenBeforeChild ==
    (last.op \in Creating /\ PodBefore.found)
        => /\ last.result = "ok"
                => /\ Cardinality(AllWrites) = 2
                   /\ WritesTo(ParentOf(CreatedPath)) # {}
                   /\ WritesTo(CreatedPath) = {Len(last.trace)}
                   /\ \A i \in WritesTo(ParentOf(CreatedPath)) : i < Len(last.trace)
                   /\ Listed(ListingNow(ParentOf(CreatedPath)),
                             <<Token(last.op # "directoryCreate"), NameOf(CreatedPath)>>)
                   /\ RecordNow(CreatedPath).found
           /\ last.result # "ok"
                => /\ AllWrites = {}
                   /\ feed = last.before

C19_Witness ==
    /\ last.op = "fileSaveShared"
    /\ last.result = "ok"
    /\ last.path = <<"a">>
    /\ WritesTo(<<"a">>) = {Len(last.trace) - 1}
    /\ WritesTo(<<"a", "g">>) = {Len(last.trace)}
    /\ \E x \in hist.files : x.path = <<"f">>

----------------------------------------------------------------------------
(* Epochs of the writes *)

\* the topic of owner had a version when the last operation was called
WrittenBefore(owner, topic) ==
    \E a \in DOMAIN last.before : a[1] = owner /\ a[2] = topic

\* the write at position j of the I/O of the last operation is at the epoch after
\* the one a lookup of its topic and owner found earlier in the same operation
AtNextEpoch(j) ==
    \E i \in 1..(j - 1) :
        /\ last.trace[i].kind = "lookup"
        /\ last.trace[i].owner = last.trace[j].owner
        /\ last.trace[i].topic = last.trace[j].topic
        /\ last.trace[i].level >= 0
        /\ [level |-> last.trace[j].level, time |-> last.trace[j].time]
              = getNextEpoch([level |-> last.trace[i].level, time |-> last.trace[i].time],
                             last.at)

\* the write at position j is at the coarsest level, anchored to the time of the call
AtFirstEpoch(j) ==
    [level |-> last.trace[j].level, time |-> last.trace[j].time] = getFirstEpoch(last.at)

\* C20: every write of an operation to a topic that had a version is at the epoch
\* getNextEpoch(now) of the epoch that a lookup of the same topic and owner found
\* in the same operation; a write to a topic that had none is at the coarsest
\* level, anchored to now.
C20_RewriteAtNextEpoch ==
    last.op \notin {"none", "feedRead", "feedWrite"}
        => \A j \in AllWrites :
              /\ WrittenBefore(last.trace[j].owner, last.trace[j].topic) => AtNextEpoch(j)
              /\ ~WrittenBefore(last.trace[j].owner, last.trace[j].topic) => AtFirstEpoch(j)

----------------------------------------------------------------------------
(* Epochs of the versions of one feed *)

EpochOf(w) == [level |-> w.level, time |-> w.time]

\* the first version is at the first epoch and every later one at the epoch
\* after the epoch of the version written before it
NextEpochChain ==
    /\ Len(Writes) >= 1 => EpochOf(Writes[1]) = Epoch(TopLevel, Writes[1].at)
    /\ \A i \in 1..(Len(Writes) - 1) :
           EpochOf(Writes[i + 1]) =
               nextEpochUnder(TopLevel, EpochOf(Writes[i]), Writes[i + 1].at)

\* C21: in a chain of writes to one topic of one owner, each at getNextEpoch(now)
\* of the epoch written before, at times that do not decrease, the epochs written
\* are pairwise distinct and no write goes to an address that holds a chunk.
C21_EpochsNeverReused ==
    NextEpochChain
        => /\ \A i, j \in 1..Len(Writes) : i < j => EpochOf(Writes[i]) # EpochOf(Writes[j])
           /\ last.op = "feedWrite"
                => Addr(ROOT_OWNER, FEED_TOPIC, EpochOf(LastWrite)) \notin DOMAIN last.before

----------------------------------------------------------------------------
(* The epoch rules on their own: the first epoch of a time, and the epoch    *)
(* after an epoch at a time, over two windows of the coarsest level          *)

EpochMaxTime == 2 * Pow2(TopLevel) - 1
EpochTimes == 0..EpochMaxTime

\* a rule was applied at time t to the epoch e and gave the epoch `result`
EpochStep(op, e, t, result) ==
    /\ steps < MaxSteps
    /\ steps' = steps + 1
    /\ last' = [op |-> op, pod |-> <<>>, path |-> <<>>, payload |-> <<e>>, bs |-> 0,
                result |-> "ok", trace |-> <<>>, data |-> <<result>>, before |-> feed,
                at |-> t, prior |-> hist]
    /\ UNCHANGED <<now, feed, blobs, hist, calls>>

FirstEpoch == \E t \in EpochTimes : EpochStep("getFirstEpoch", NoEpoch, t, Epoch(TopLevel, t))

\* the epoch after the one produced last
NextEpoch ==
    /\ last.op \in {"getFirstEpoch", "getNextEpoch"}
    /\ \E t \in EpochTimes :
           EpochStep("getNextEpoch", last.data[1], t,
                     nextEpochUnder(TopLevel, last.data[1], t))

NextEpochs ==
    \/ FirstEpoch
    \/ NextEpoch

SpecEpoch == Init /\ [][NextEpochs]_vars

EpochProduced == last.op \in {"getFirstEpoch", "getNextEpoch"}

\* C22: an epoch produced by the first-epoch rule or by getNextEpoch has a level
\* from 0 to the coarsest level and a time that is a multiple of 2^level.
C22_EpochAligned ==
    EpochProduced
        => /\ last.data[1].level \in 0..TopLevel
           /\ last.data[1].time % Pow2(last.data[1].level) = 0

C22_Witness ==
    /\ last.op = "getNextEpoch"
    /\ last.at = 3
    /\ last.data[1] = [level |-> 1, time |-> 2]

\* C23: getNextEpoch(currentTime) of an epoch of a level above 0 whose window
\* holds currentTime is the epoch one level below whose window holds
\* currentTime; of an epoch of level 0, or whose window does not hold
\* currentTime, it is another epoch, whose window holds currentTime.
C23_NextEpoch ==
    last.op = "getNextEpoch"
        => /\ (InWindow(last.payload[1], last.at) /\ last.payload[1].level > 0)
                => /\ last.data[1].level = last.payload[1].level - 1
                   /\ InWindow(last.data[1], last.at)
           /\ (last.payload[1].level = 0 \/ ~InWindow(last.payload[1], last.at))
                => /\ last.data[1] # last.payload[1]
                   /\ InWindow(last.data[1], last.at)

C23_Witness ==
    /\ last.op = "getNextEpoch"
    /\ last.payload[1] = [level |-> 0, time |-> 5]
    /\ last.at = 5
    /\ last.data[1] = [level |-> TopLevel, time |-> 4]
----------------------------------------------------------------------------
(* The chunk fetches of a lookup *)

\* the fetches a lookup at time t issues, in order: one per level from `level`
\* down, each at the epoch of its level whose window holds t, up to and
\* including the first that fails
RECURSIVE lookupFetches(_, _, _, _, _)
lookupFetches(f, owner, topic, t, level) ==
    IF level < 0 THEN <<>>
    ELSE LET e == Epoch(level, t)
             hit == Addr(owner, topic, e) \in DOMAIN f
         IN  <<[level |-> e.level, time |-> e.time, hit |-> hit]>>
                 \o (IF hit THEN lookupFetches(f, owner, topic, t, level - 1) ELSE <<>>)

Fetches == lookupFetches(last.before, ROOT_OWNER, FEED_TOPIC, last.at, TopLevel)
Hits == SelectSeq(Fetches, LAMBDA p : p.hit)
LastHit == Hits[Len(Hits)]

\* C24: a lookup issues at most (coarsest level + 1) chunk fetches, the first
\* at the coarsest level and each next one a level finer; it returns the data
\* and the epoch of the last fetch that succeeded; a failed fetch at a finer
\* level ends the descent and overrides nothing; a failed fetch at the coarsest
\* level is NotFound.
C24_LookupDescent ==
    last.op = "feedRead"
        => /\ Len(Fetches) \in 1..(TopLevel + 1)
           /\ Fetches[1].level = TopLevel
           /\ \A i \in 1..(Len(Fetches) - 1) :
                  /\ Fetches[i].hit
                  /\ Fetches[i + 1].level = Fetches[i].level - 1
           /\ ~Fetches[1].hit => last.result = "NotFound"
           /\ Fetches[1].hit
                => /\ last.result = "ok"
                   /\ last.trace[1].level = LastHit.level
                   /\ last.trace[1].time = LastHit.time
                   /\ last.data = <<last.before[<<ROOT_OWNER, FEED_TOPIC,
                                                  LastHit.level, LastHit.time>>].value>>

\* a read that found the coarsest chunk, failed a level below and returned the coarsest
C24_Witness ==
    /\ last.op = "feedRead"
    /\ last.result = "ok"
    /\ Len(Fetches) = 2
    /\ ~Fetches[2].hit
    /\ last.trace[1].level = TopLevel

----------------------------------------------------------------------------
(* Concurrent writers.  Every fetch and every write of a call is a round     *)
(* trip to the store; a call stops at each and the round trips of two calls  *)
(* interleave.  What a call sends next is computed when the answer to its    *)
(* previous round trip arrives.                                              *)

RACE_POD == <<"p">>
RacePaths == {<<"a">>, <<"b">>}

Finished(c, result) == [c EXCEPT !.pc = "done", !.result = result, !.pending = NoWrite]

\* Directory.create after the pod list answered; the names are valid
createStarted(f, t, path) ==
    [op |-> "directoryCreate", path |-> path, pc |-> "probe",
     owner |-> getWritablePodInfo(f, t, RACE_POD).owner,
     key |-> getWritablePodInfo(f, t, RACE_POD).key,
     pending |-> NoWrite, result |-> "none", refused |-> <<>>]

\* addEntryToDirectory after the existence probe answered
addEntryProbed(f, t, c) ==
    IF assertItemIsNotExists(f, c.owner, c.path, t) # "ok"
    THEN Finished(c, "AlreadyExists")
    ELSE [c EXCEPT !.pc = "fetch"]

addEntryFetchedUnchecked(f, t, c) ==
    LET parentPath == ParentOf(c.path)
        parent == getRawMetadata(f, c.owner, parentPath, c.key, t)
        itemToAdd == <<Token(c.op = "fileUploadData"), NameOf(c.path)>>
    IN  IF ~(parent.found /\ assertRawDirectoryMetadata(parent.metadata))
        THEN Finished(c, "ParentNotFound")
        ELSE [c EXCEPT !.pc = "writeParent",
                       !.pending = [topic |-> parentPath,
                                    doc |-> [parent.metadata EXCEPT
                                               !.fileOrDirNames = Append(@, itemToAdd),
                                               !.modificationTime = t],
                                    epoch |-> getNextEpoch(parent.epoch, t)]]

\* addEntryToDirectory after the parent's metadata answered: the listing with
\* the entry appended waits to be written at the epoch after the one fetched
addEntryFetched(f, t, c) ==
    LET parentPath == ParentOf(c.path)
        parent == getRawMetadata(f, c.owner, parentPath, c.key, t)
        itemToAdd == <<Token(c.op = "fileUploadData"), NameOf(c.path)>>
    IN  IF ~(parent.found /\ assertRawDirectoryMetadata(parent.metadata))
        THEN Finished(c, "ParentNotFound")
        ELSE IF Listed(parent.metadata.fileOrDirNames, itemToAdd)
             THEN Finished(c, "AlreadyListed")
        ELSE [c EXCEPT !.pc = "writeParent",
                       !.pending = [topic |-> parentPath,
                                    doc |-> [parent.metadata EXCEPT
                                               !.fileOrDirNames = Append(@, itemToAdd),
                                               !.modificationTime = t],
                                    epoch |-> getNextEpoch(parent.epoch, t)]]

\* the write that waits, sent to the store
writePending(f, c) ==
    writeFeedData(f, c.owner, c.pending.topic, c.pending.doc, c.key, c.pending.epoch)

\* the call after its waiting write was answered: a write the store refused
\* with 'chunk already exists' is taken for written, and is noted here with the
\* payload the store holds
writeAnswered(f, c) ==
    IF Addr(c.owner, c.pending.topic, c.pending.epoch) \in DOMAIN f
    THEN [c EXCEPT !.refused =
                 Append(@, [stored |-> f[Addr(c.owner, c.pending.topic, c.pending.epoch)],
                            sent |-> encryptJson(c.key, c.pending.doc)])]
    ELSE c

\* createDirectory after the parent's write answered: createDirectoryInfo waits;
\* File.uploadData after it: the write of the file's metadata waits
parentWritten(t, c) ==
    [c EXCEPT !.pc = "writeChild",
              !.pending = [topic |-> c.path,
                           doc |-> IF c.op = "fileUploadData" THEN c.child
                                   ELSE createRawDirectoryMetadata(ParentOf(c.path),
                                                                   NameOf(c.path), t),
                           epoch |-> DefaultEpoch(t)]]

RaceStep(w, f, c) ==
    /\ feed' = f
    /\ calls' = [calls EXCEPT ![w] = c]
    /\ UNCHANGED <<now, blobs, steps, last, hist>>

RaceStart(w) ==
    /\ calls[w].pc = "idle"
    /\ \E path \in RacePaths : RaceStep(w, feed, createStarted(feed, now, path))

RaceProbe(w) ==
    /\ calls[w].pc = "probe"
    /\ RaceStep(w, feed, addEntryProbed(feed, now, calls[w]))

RaceFetch(w) ==
    /\ calls[w].pc = "fetch"
    /\ RaceStep(w, feed, addEntryFetched(feed, now, calls[w]))

RaceWriteParent(w) ==
    /\ calls[w].pc = "writeParent"
    /\ RaceStep(w, writePending(feed, calls[w]),
                parentWritten(now, writeAnswered(feed, calls[w])))

RaceWriteChild(w) ==
    /\ calls[w].pc = "writeChild"
    /\ RaceStep(w, writePending(feed, calls[w]),
                Finished(writeAnswered(feed, calls[w]), "ok"))

NextRace ==
    \/ Tick
    \/ \E w \in Writers : RaceStart(w)
    \/ \E w \in Writers : RaceProbe(w)
    \/ \E w \in Writers : RaceFetch(w)
    \/ \E w \in Writers : RaceWriteParent(w)
    \/ \E w \in Writers : RaceWriteChild(w)

SpecRace == InitPod /\ [][NextRace]_vars

NoDuplicates(names) == \A i, j \in 1..Len(names) : names[i] = names[j] => i = j
Count(names, item) == Len(SelectSeq(names, LAMBDA n : n = item))

\* the versions of directory metadata in the store
DirectoryRecords ==
    {feed[a].plain : a \in {x \in DOMAIN feed :
                               x[1] # ROOT_OWNER /\ feed[x].plain.type = "dir"}}

\* the latest listing of the root of the pod
RaceListing ==
    getRawMetadata(feed, getWritablePodInfo(feed, now, RACE_POD).owner, Root,
                   getWritablePodInfo(feed, now, RACE_POD).key, now).metadata.fileOrDirNames

AllDone == \A w \in Writers : calls[w].pc = "done"

\* C25: two writers create the same directory name under the same parent
\* concurrently: whatever the interleaving of their fetches and writes, once
\* both are through the parent's latest listing has exactly one entry of that
\* name, and no version of any listing has an entry twice.
C25_RacingCreatesListOnce ==
    /\ \A d \in DirectoryRecords : NoDuplicates(d.fileOrDirNames)
    /\ (AllDone /\ calls[1].path = calls[2].path)
           => Count(RaceListing, <<DIRECTORY_TOKEN, NameOf(calls[1].path)>>) = 1

\* both passed the probe and the check of the listing, and both wrote
C25_Witness ==
    /\ AllDone
    /\ calls[1].path = calls[2].path
    /\ \A w \in Writers : calls[w].result = "ok"

\* C26: no call loses data in silence: once the concurrent calls on one
\* listing are through, the entry of every call that reported success is in the
\* latest listing.
C26_NoSilentLoss ==
    AllDone
        => \A w \in Writers :
               calls[w].result = "ok"
                   => Listed(RaceListing, <<DIRECTORY_TOKEN, NameOf(calls[w].path)>>)

\* C27: whenever writeFeedDataRaw is answered 'chunk already exists' and
\* reports success, the payload the store holds at that address is the payload
\* of the call, byte for byte.
C27_SwallowedWriteIdentical ==
    \A w \in Writers :
        \A i \in 1..Len(calls[w].refused) :
            calls[w].refused[i].stored = calls[w].refused[i].sent

----------------------------------------------------------------------------
(* Store failures.  A write the store refuses with an error other than       *)
(* 'chunk already exists' throws out of writeFeedDataRaw and out of every    *)
(* caller up to the public operation: what was written before stays, nothing *)
(* after is done.                                                            *)

WritesOf(trace) == SelectSeq(trace, LAMBDA io : io.kind = "write")

\* the I/O of a trace up to and with its k-th write
RECURSIVE UpToWrite(_, _)
UpToWrite(trace, k) ==
    IF k = 0 \/ trace = <<>> THEN <<>>
    ELSE <<Head(trace)>>
            \o UpToWrite(Tail(trace), IF Head(trace).kind = "write" THEN k - 1 ELSE k)

WrittenBy(trace, k) ==
    {<<WritesOf(trace)[i].owner, WritesOf(trace)[i].topic,
       WritesOf(trace)[i].level, WritesOf(trace)[i].time>> : i \in 1..(k - 1)}

\* the outcome of an operation whose k-th write the store refuses, from its
\* outcome `out` on a store that refuses nothing
storeFailure(f, out, k) ==
    IF Len(WritesOf(out.trace)) < k THEN out
    ELSE Outcome("StoreError",
                 [a \in DOMAIN f \cup WrittenBy(out.trace, k) |->
                     IF a \in DOMAIN f THEN f[a] ELSE out.feed[a]],
                 out.blobs, UpToWrite(out.trace, k), <<>>)

FailingWrites == {1, 2}

PodCreateFailing(names) ==
    \E name \in names, k \in FailingWrites :
        Call("podCreate", name, <<>>, <<k>>, 0,
             storeFailure(feed, podCreate(feed, now, name), k))

DirectoryCreateFailing(pods, paths) ==
    \E pod \in pods, path \in paths, k \in FailingWrites :
        Call("directoryCreate", pod, path, <<k>>, 0,
             storeFailure(feed, directoryCreate(feed, now, pod, path), k))

FileUploadDataFailing(pods, paths, payloads, sizes) ==
    \E pod \in pods, path \in paths, data \in payloads, bs \in sizes, k \in FailingWrites :
        Call("fileUploadDataFailing", pod, path, data, bs,
             storeFailure(feed, fileUploadData(feed, now, pod, path, data, bs), k))

NextFaults ==
    \/ Tick
    \/ PodCreate({<<"p">>, <<"q">>})
    \/ PodDelete({<<"p">>, <<"q">>})
    \/ PodCreateFailing({<<"p">>, <<"q">>})
    \/ DirectoryCreateFailing({<<"p">>, <<"q">>}, {<<"a">>})
    \/ FileUploadDataFailing({<<"p">>, <<"q">>}, {<<"f">>}, {<<1>>}, {2})

SpecFaults == Init /\ [][NextFaults]_vars

\* the last operation stopped at its second write, its first write done
SecondWriteFailed ==
    /\ last.result = "StoreError"
    /\ Len(WritesOf(last.trace)) = 2

FirstWrite == WritesOf(last.trace)[1]
FirstWriteAddr == <<FirstWrite.owner, FirstWrite.topic, FirstWrite.level, FirstWrite.time>>

\* C28: a failure in the middle is reported and nothing is rolled back.  When
\* the write of the root directory fails after the write of the pod list, create
\* fails, the list shows the pod and the read of its root is NotFound; when the
\* write of the child's metadata fails after the write of the parent's listing,
\* create or upload fails and the listing keeps the new entry.  The failing
\* write is the last I/O and every chunk written before is still there.
C28_PartialFailureNoRollback ==
    SecondWriteFailed
        => /\ last.trace[Len(last.trace)].kind = "write"
           /\ OldChunksKept
           /\ DOMAIN feed \subseteq DOMAIN last.before \cup {FirstWriteAddr}
           /\ last.op = "podCreate"
                => /\ HasPod(PodsNow, last.pod)
                   /\ ~RecordNow(Root).found
           /\ last.op = "directoryCreate"
                => Listed(ListingNow(ParentOf(last.path)),
                          <<DIRECTORY_TOKEN, NameOf(last.path)>>)
           /\ last.op = "fileUploadDataFailing"
                => Listed(ListingNow(ParentOf(last.path)),
                          <<FILE_TOKEN, NameOf(last.path)>>)

----------------------------------------------------------------------------
(* Reading a directory *)

getReadablePodInfo(f, t, podName) == FindPod(getPodsList(f, t).pods, podName)

\* the items of a read: a directory with its content, a file
fromRawDirectoryMetadata(raw) ==
    [kind |-> "dir", name |-> raw.name, raw |-> raw, content |-> <<>>]
fromRawFileMetadata(raw) == [kind |-> "file", name |-> raw.file_name, raw |-> raw]
NoItem == [kind |-> "none"]

ReadResult(result, item, trace) == [result |-> result, item |-> item, trace |-> trace]

RECURSIVE readDirectory(_, _, _, _, _, _)
RECURSIVE readItems(_, _, _, _, _, _, _)

\* the loop over the listing from `names` on: {result, item.content, trace}
readItems(f, t, owner, key, path, names, isRecursive) ==
    IF names = <<>> THEN ReadResult("ok", [content |-> <<>>], <<>>)
    ELSE LET item == Head(names)
             isFile == item[1] = FILE_TOKEN
             isDirectory == item[1] = DIRECTORY_TOKEN
             child == combine(path, item[2])
             data == getRawMetadata(f, owner, child, key, t)
             fetch == <<IoLookup(owner, child, data.epoch)>>
             sub == readDirectory(f, t, owner, key, child, isRecursive)
             down == IF isDirectory /\ isRecursive THEN sub.trace ELSE <<>>
             rest == readItems(f, t, owner, key, path, Tail(names), isRecursive)
             read == IF isFile THEN fromRawFileMetadata(data.metadata)
                     ELSE [fromRawDirectoryMetadata(data.metadata) EXCEPT
                             !.content = IF isRecursive THEN sub.item.content ELSE <<>>]
         IN  IF ~(isFile \/ isDirectory) THEN rest
             ELSE IF ~data.found THEN ReadResult("NotFound", NoItem, fetch)
             ELSE IF isFile /\ ~assertRawFileMetadata(data.metadata)
                  THEN ReadResult("NotFile", NoItem, fetch)
             ELSE IF isDirectory /\ ~assertRawDirectoryMetadata(data.metadata)
                  THEN ReadResult("NotDirectory", NoItem, fetch)
             ELSE IF isDirectory /\ isRecursive /\ sub.result # "ok"
                  THEN ReadResult(sub.result, NoItem, fetch \o down)
             ELSE IF rest.result # "ok"
                  THEN ReadResult(rest.result, NoItem, fetch \o down \o rest.trace)
             ELSE ReadResult("ok", [content |-> <<read>> \o rest.item.content],
                             fetch \o down \o rest.trace)

readDirectory(f, t, owner, key, path, isRecursive) ==
    LET parent == getRawMetadata(f, owner, path, key, t)
        fetch == <<IoLookup(owner, path, parent.epoch)>>
        items == readItems(f, t, owner, key, path, parent.metadata.fileOrDirNames,
                           isRecursive)
    IN  IF ~parent.found THEN ReadResult("NotFound", NoItem, fetch)
        ELSE IF ~assertRawDirectoryMetadata(parent.metadata)
             THEN ReadResult("NotDirectory", NoItem, fetch)
        ELSE IF items.result # "ok" THEN ReadResult(items.result, NoItem, fetch \o items.trace)
        ELSE ReadResult("ok",
                        [fromRawDirectoryMetadata(parent.metadata) EXCEPT
                           !.content = items.item.content],
                        fetch \o items.trace)

directoryReadAlwaysRecursive(f, t, podName, path, isRecursive) ==
    LET info == getReadablePodInfo(f, t, podName)
        read == readDirectory(f, t, info.owner, info.key, path, TRUE)
    IN  IF assertPodName(podName) # "ok" THEN Outcome(assertPodName(podName), f, {}, <<>>, <<>>)
        ELSE IF ~info.found THEN Outcome("PodNotFound", f, {}, <<PodFetch(f, t)>>, <<>>)
        ELSE Outcome(read.result, f, {}, <<PodFetch(f, t)>> \o read.trace,
                     IF read.result = "ok" THEN <<read.item>> ELSE <<>>)

\* Directory.read
directoryRead(f, t, podName, path, isRecursive) ==
    LET info == getReadablePodInfo(f, t, podName)
        read == readDirectory(f, t, info.owner, info.key, path, isRecursive)
    IN  IF assertPodName(podName) # "ok" THEN Outcome(assertPodName(podName), f, {}, <<>>, <<>>)
        ELSE IF ~info.found THEN Outcome("PodNotFound", f, {}, <<PodFetch(f, t)>>, <<>>)
        ELSE Outcome(read.result, f, {}, <<PodFetch(f, t)>> \o read.trace,
                     IF read.result = "ok" THEN <<read.item>> ELSE <<>>)

\* the flag of the read is kept as the block size of the call: 1 for recursive
DirectoryRead(pods, paths) ==
    \E pod \in pods, path \in paths, isRecursive \in BOOLEAN :
        Call("directoryRead", pod, path, <<>>, IF isRecursive THEN 1 ELSE 0,
             directoryRead(feed, now, pod, path, isRecursive))

ReadPaths == {Root, <<"a">>, <<"a", "b">>, <<"x">>}

NextRead ==
    \/ Tick
    \/ DirectoryCreate({<<"p">>}, DirectoryPaths)
    \/ FileUploadData({<<"p">>}, FilePaths, {<<1>>}, {2})
    \/ DirectoryDelete({<<"p">>}, DirectoryPaths)
    \/ FileDelete({<<"p">>}, FilePaths)
    \/ DirectoryRead({<<"p">>}, ReadPaths)

SpecRead == InitPod /\ [][NextRead]_vars

WasRecursive == last.bs = 1
KindOf(token) == IF token = FILE_TOKEN THEN "file" ELSE "dir"

\* the item is what the listing of `path` and the records of its entries say,
\* entry by entry, and so on below every directory when the read was recursive
RECURSIVE TreeMatches(_, _)
TreeMatches(item, path) ==
    /\ Len(item.content) = Len(ListingBefore(path))
    /\ \A i \in 1..Len(item.content) :
           /\ item.content[i].kind = KindOf(ListingBefore(path)[i][1])
           /\ item.content[i].name = ListingBefore(path)[i][2]
           /\ item.content[i].raw
                  = RecordBefore(combine(path, ListingBefore(path)[i][2])).metadata
           /\ item.content[i].kind = "dir"
                  => IF WasRecursive
                     THEN TreeMatches(item.content[i], combine(path, item.content[i].name))
                     ELSE item.content[i].content = <<>>

\* the paths of the items below an item, in the order of the read
RECURSIVE TreePaths(_, _)
RECURSIVE TreePathsFrom(_, _, _)
TreePathsFrom(content, path, i) ==
    IF i > Len(content) THEN <<>>
    ELSE <<combine(path, content[i].name)>>
            \o (IF content[i].kind = "dir"
                THEN TreePaths(content[i], combine(path, content[i].name))
                ELSE <<>>)
            \o TreePathsFrom(content, path, i + 1)
TreePaths(item, path) == TreePathsFrom(item.content, path, 1)

IsPrefix(p, q) == Len(p) <= Len(q) /\ SubSeq(q, 1, Len(p)) = p

\* the paths listed below `path`: every step down is an entry of the listing above
ListedBelow(path) ==
    {q \in DirectoryPaths \cup FilePaths :
        /\ Len(q) > Len(path)
        /\ IsPrefix(path, q)
        /\ \A k \in (Len(path) + 1)..Len(q) :
               \/ Listed(ListingBefore(SubSeq(q, 1, k - 1)), <<DIRECTORY_TOKEN, q[k]>>)
               \/ k = Len(q)
                    /\ Listed(ListingBefore(SubSeq(q, 1, k - 1)), <<FILE_TOKEN, q[k]>>)}

\* C29: a read of a directory returns one item for every entry of its listing,
\* in the order of the listing, each with the metadata fetched for it; not
\* recursive, every directory among them has no content; recursive, the content
\* of every directory is the read of that directory, and every listed
\* descendant is in the result exactly once.  A path without directory
\* metadata fails NotFound.
C29_ReadDirectory ==
    (last.op = "directoryRead" /\ PodBefore.found)
        => /\ ~RecordBefore(last.path).found => last.result = "NotFound"
           /\ DirectoryBefore(last.path)
                => /\ last.result = "ok"
                   /\ last.data[1].kind = "dir"
                   /\ last.data[1].raw = RecordBefore(last.path).metadata
                   /\ TreeMatches(last.data[1], last.path)
                   /\ WasRecursive
                        => /\ NoDuplicates(TreePaths(last.data[1], last.path))
                           /\ {TreePaths(last.data[1], last.path)[i] :
                                 i \in 1..Len(TreePaths(last.data[1], last.path))}
                                  = ListedBelow(last.path)

\* a recursive read of the root with a directory that holds a directory and a file
C29_Witness ==
    /\ last.op = "directoryRead"
    /\ last.result = "ok"
    /\ last.path = Root
    /\ WasRecursive
    /\ ListedBelow(Root) = {<<"a">>, <<"a", "b">>, <<"a", "f">>}
    /\ Len(last.data[1].content[1].content) = 2

----------------------------------------------------------------------------
(* The store under creates and deletes *)

NextStore ==
    \/ Tick
    \/ PodCreate({<<"p">>})
    \/ PodDelete({<<"p">>})
    \/ DirectoryCreate({<<"p">>}, {<<"a">>})
    \/ DirectoryDelete({<<"p">>}, {<<"a">>})
    \/ FileUploadData({<<"p">>}, {<<"f">>, <<"a", "f">>}, {<<1, 0, 1>>}, {2})
    \/ FileDelete({<<"p">>}, {<<"f">>, <<"a", "f">>})

SpecStore == Init /\ [][NextStore]_vars

\* the topic a delete writes: the pod list, or the listing that holds the item
ListingTopic(op, path) == IF op = "podDelete" THEN POD_TOPIC ELSE ParentOf(path)

\* C30: the store only grows.  No operation, the deletes of pods, directories
\* and files among them, removes a chunk or changes what a chunk holds; a
\* delete writes at most one chunk, a new version of the listing that held the
\* item, so the item's own records, its manifest, its blocks and the records of
\* what is below it stay where they were.
C30_StoreOnlyGrows ==
    [][/\ \A a \in DOMAIN feed : a \in DOMAIN feed' /\ feed'[a] = feed[a]
       /\ blobs \subseteq blobs'
       /\ (steps' # steps /\ last'.op \in {"podDelete", "directoryDelete", "fileDelete"})
              => /\ blobs' = blobs
                 /\ Cardinality(DOMAIN feed' \ DOMAIN feed) <= 1
                 /\ \A a \in DOMAIN feed' \ DOMAIN feed :
                        a[2] = ListingTopic(last'.op, last'.path)]_vars

\* a directory deleted with a file below it: the records of both, the manifest
\* and the blocks of the file are still in the store
C30_Witness ==
    /\ last.op = "directoryDelete"
    /\ last.result = "ok"
    /\ last.path = <<"a">>
    /\ ~Listed(ListingNow(Root), <<DIRECTORY_TOKEN, "a">>)
    /\ RecordNow(<<"a">>).found
    /\ RecordNow(<<"a", "f">>).found
    /\ RecordNow(<<"a", "f">>).metadata.file_inode_reference \in blobs
    /\ Cardinality(blobs) >= 3

----------------------------------------------------------------------------
(* The blocks of a file *)

\* no version of the metadata of a path of a pod is in the store
Unwritten(podName, path) ==
    ~Found(lookup(feed, getWritablePodInfo(feed, now, podName).owner, path, now))

\* one file, uploaded once by either upload, and downloaded
NextBlocks ==
    \/ Tick
    \/ Unwritten(<<"p">>, <<"f">>)
          /\ FileUploadData({<<"p">>}, {<<"f">>}, Payloads, BlockSizes)
    \/ Unwritten(<<"p">>, <<"f">>)
          /\ UploadData({<<"p">>}, {<<"f">>}, Payloads, BlockSizes)
    \/ FileDownloadData({<<"p">>}, {<<"f">>})

SpecBlocks == InitPod /\ [][NextBlocks]_vars

\* the blocks the manifest of a file record lists
ManifestBlocks(record) == downloadBlocksManifest(record.metadata.file_inode_reference)
Uploaded == last.op \in {"fileUploadData", "uploadData"} /\ last.result = "ok"
Downloaded == last.op = "fileDownloadData" /\ last.result = "ok"

\* the number of blocks of n bytes in blocks of b: the least k with k * b >= n
CeilDiv(n, b) == CHOOSE k \in 0..n : k * b >= n /\ \A j \in 0..(k - 1) : j * b < n

\* the byte a stored byte stands for, enciphered or not
PlainByte(byte) == byte % 256

----------------------------------------------------------------------------
(* The check of a shared pod.  A value handed in as bytes is known by whether *)
(* it is a typed array and by its length.                                     *)

POD_PASSWORD_LENGTH == 32
ETH_ADDR_LENGTH == 20

Bytes(view, length) == [view |-> view, length |-> length]

isPodPasswordAtLeast(value) == value.view /\ value.length >= POD_PASSWORD_LENGTH

\* typeof value === 'object' && ArrayBuffer.isView(value) && value.length === POD_PASSWORD_LENGTH
isPodPassword(value) == value.view /\ value.length = POD_PASSWORD_LENGTH

\* an address as bytes
isEthAddressBytes(value) == value.view /\ value.length = ETH_ADDR_LENGTH

isSharedPod(value) == isEthAddressBytes(value.address) /\ isPodPassword(value.password)

AddressLengths == {0, ETH_ADDR_LENGTH - 1, ETH_ADDR_LENGTH, ETH_ADDR_LENGTH + 1, 2 * ETH_ADDR_LENGTH}
PasswordLengths ==
    {0, POD_PASSWORD_LENGTH - 1, POD_PASSWORD_LENGTH, POD_PASSWORD_LENGTH + 1, 2 * POD_PASSWORD_LENGTH}

IsSharedPod ==
    \E av \in BOOLEAN, al \in AddressLengths, pv \in BOOLEAN, pl \in PasswordLengths :
        Call("isSharedPod", <<>>, <<>>,
             <<[name |-> "Hello world", address |-> Bytes(av, al), password |-> Bytes(pv, pl)]>>,
             0,
             Outcome("ok", feed, {}, <<>>,
                     <<isSharedPod([name |-> "Hello world", address |-> Bytes(av, al),
                                    password |-> Bytes(pv, pl)])>>))

NextSharedPodCheck == IsSharedPod

SpecSharedPodCheck == Init /\ [][NextSharedPodCheck]_vars

\* C32: isSharedPod is true exactly when the address is an array of 20 bytes
\* and the password an array of 32 bytes; an address of 19 or 21 bytes, or a
\* password of 31 or 33 bytes, makes it false.
C32_IsSharedPod ==
    last.op = "isSharedPod"
        => /\ last.data[1]
                  = (/\ last.payload[1].address.view
                     /\ last.payload[1].address.length = 20
                     /\ last.payload[1].password.view
                     /\ last.payload[1].password.length = 32)
           /\ (\/ last.payload[1].address.length \in {19, 21}
               \/ last.payload[1].password.length \in {31, 33})
                  => last.data[1] = FALSE

\* a right address with a password one byte too long is refused
C32_Witness ==
    /\ last.op = "isSharedPod"
    /\ last.payload[1].address = Bytes(TRUE, 20)
    /\ last.payload[1].password = Bytes(TRUE, 33)
    /\ last.data[1] = FALSE

----------------------------------------------------------------------------
(* Pods created after deletes *)

\* C33: after any sequence of successful creates and deletes of pods, the pods
\* of the list have pairwise distinct indices and the index of each pod is its
\* position in the list, counted from 1.
C33_IndexIsPosition ==
    /\ \A i, j \in 1..Len(PodsNow) : PodsNow[i].index = PodsNow[j].index => i = j
    /\ \A i \in 1..Len(PodsNow) : PodsNow[i].index = i

\* the read of the root of the pod just created
RootRead == directoryRead(feed, now, last.pod, Root, FALSE)

\* C34: whenever create(name) returns success, the read of the root of the
\* pod that follows at once succeeds and returns the root directory, path ""
\* and name "/", without children, whatever index the pod was given.
C34_CreatedPodHasEmptyRoot ==
    (last.op = "podCreate" /\ last.result = "ok")
        => /\ RootRead.result = "ok"
           /\ RootRead.data[1].raw.path = EmptyPath
           /\ RootRead.data[1].name = "/"
           /\ RootRead.data[1].content = <<>>

\* the item of the last operation has a record and no entry in its parent's
\* listing: it was deleted
DeletedBefore ==
    /\ PodBefore.found
    /\ DirectoryBefore(ParentOf(last.path))
    /\ RecordBefore(last.path).found
    /\ ~Listed(ListingBefore(ParentOf(last.path)), <<FILE_TOKEN, NameOf(last.path)>>)
    /\ ~Listed(ListingBefore(ParentOf(last.path)), <<DIRECTORY_TOKEN, NameOf(last.path)>>)

\* C35: a deleted name can be used again: a create or an upload at the path of
\* a deleted directory or file succeeds, puts the entry back into the parent's
\* listing, and the record read at the path afterwards is the one just written.
C35_DeletedNameReusable ==
    (last.op \in {"directoryCreate", "fileUploadData"} /\ Len(last.path) > 0 /\ DeletedBefore)
        => /\ last.result = "ok"
           /\ Listed(ListingNow(ParentOf(last.path)),
                     <<Token(last.op = "fileUploadData"), NameOf(last.path)>>)
           /\ RecordNow(last.path) # RecordBefore(last.path)

----------------------------------------------------------------------------
(* Upload of a directory *)

\* the loop over directoriesToCreate: an error of createDirectory whose message
\* has 'already listed in the parent directory list' is dropped, any other ends
\* the upload.  The outcome of each call is bound as a value, so that it is
\* computed once.
RECURSIVE createDirectories(_, _, _, _, _)
createDirectories(f, t, owner, key, dirs) ==
    IF dirs = <<>> THEN Outcome("ok", f, {}, <<>>, <<>>)
    ELSE LET after(made) ==
                 IF made.result \notin {"ok", "AlreadyListed"} THEN made
                 ELSE [createDirectories(made.feed, t, owner, key, Tail(dirs)) EXCEPT
                         !.trace = made.trace \o @]
         IN  CHOOSE out \in {after(made) :
                               made \in {createDirectory(f, t, owner, key, Head(dirs))}} : TRUE

\* the loop over the files: uploadData of the handler for each
RECURSIVE uploadFiles(_, _, _, _, _)
uploadFiles(f, t, podName, files, blockSize) ==
    IF files = <<>> THEN Outcome("ok", f, {}, <<>>, <<>>)
    ELSE LET after(up) ==
                 IF up.result # "ok" THEN up
                 ELSE [uploadFiles(up.feed, t, podName, Tail(files), blockSize) EXCEPT
                         !.trace = up.trace \o @, !.blobs = up.blobs \cup @]
         IN  CHOOSE out \in {after(up) :
                               up \in {uploadData(f, t, podName, Head(files).path,
                                                  Head(files).data, blockSize)}} : TRUE

\* Directory.upload of a source with the directories `dirs`, parents first, and
\* the files `files`
directoryUpload(f, t, podName, dirs, files, blockSize) ==
    LET info == getWritablePodInfo(f, t, podName)
        after(made) ==
            IF made.result # "ok" THEN made
            ELSE [uploadFiles(made.feed, t, podName, files, blockSize) EXCEPT
                    !.trace = made.trace \o @]
    IN  IF assertPodName(podName) # "ok" THEN Outcome(assertPodName(podName), f, {}, <<>>, <<>>)
        ELSE IF ~info.found THEN Outcome("PodNotFound", f, {}, <<PodFetch(f, t)>>, <<>>)
        ELSE AfterPodFetch(f, t,
                 CHOOSE out \in {after(made) :
                                   made \in {createDirectories(f, t, info.owner, info.key,
                                                               dirs)}} : TRUE)

\* the sources uploaded: a directory with a file, and one with a directory below
FileOf(path) == [path |-> path, data |-> <<1>>]
Sources ==
    {[dirs |-> <<<<"a">>>>, files |-> <<FileOf(<<"a", "f">>)>>],
     [dirs |-> <<<<"a">>, <<"a", "b">>>>,
      files |-> <<FileOf(<<"a", "f">>), FileOf(<<"a", "b", "f">>)>>]}

DirectoryUpload(pods) ==
    \E pod \in pods, source \in Sources :
        Call("directoryUpload", pod, <<>>, <<source>>, 1,
             directoryUpload(feed, now, pod, source.dirs, source.files, 1))

NextUpload ==
    \/ Tick
    \/ DirectoryCreate({<<"p">>}, {<<"a">>})
    \/ DirectoryCreateFailing({<<"p">>}, {<<"a">>})
    \/ DirectoryUpload({<<"p">>})

SpecUpload == InitPod /\ [][NextUpload]_vars

UploadedDirs == last.payload[1].dirs
UploadedFiles == last.payload[1].files

\* the directory was in the pod before the upload: it has a record and its
\* parent lists it
ExistedBefore(d) ==
    /\ DirectoryBefore(d)
    /\ Listed(ListingBefore(ParentOf(d)), <<DIRECTORY_TOKEN, NameOf(d)>>)

\* C36: Directory.upload goes on over directories that are in the pod already:
\* when one of the directories to create exists, and none of the files does,
\* the upload creates the other directories and uploads every file; when
\* createDirectory fails for another reason, no file is uploaded.
C36_UploadToleratesExisting ==
    (last.op = "directoryUpload" /\ PodBefore.found)
        => /\ (/\ \E i \in 1..Len(UploadedDirs) : ExistedBefore(UploadedDirs[i])
               /\ \A i \in 1..Len(UploadedDirs) :
                      ExistedBefore(UploadedDirs[i]) \/ ~RecordBefore(UploadedDirs[i]).found
               /\ \A i \in 1..Len(UploadedFiles) : ~RecordBefore(UploadedFiles[i].path).found)
                 => /\ last.result = "ok"
                    /\ \A i \in 1..Len(UploadedDirs) : DirectoryNow(UploadedDirs[i])
                    /\ \A i \in 1..Len(UploadedFiles) :
                           /\ RecordNow(UploadedFiles[i].path).found
                           /\ Listed(ListingNow(ParentOf(UploadedFiles[i].path)),
                                     <<FILE_TOKEN, NameOf(UploadedFiles[i].path)>>)
           /\ last.result \in {"ParentNotFound", "InvalidName", "InvalidPath"}
                 => \A i \in 1..Len(last.trace) : last.trace[i].kind # "upload"

----------------------------------------------------------------------------
(* Listings and the records of the listed items *)

\* the record of `path` in the pod "p", as read now
RecordOf(path) ==
    getRawMetadata(feed, getReadablePodInfo(feed, now, <<"p">>).owner, path,
                   getReadablePodInfo(feed, now, <<"p">>).key, now)

\* the entry of a listing has a record of its kind at parent path + name
EntryHasRecord(path, item) ==
    LET child == RecordOf(combine(path, item[2]))
    IN  /\ item[1] = FILE_TOKEN
            => child.found /\ assertRawFileMetadata(child.metadata)
        /\ item[1] = DIRECTORY_TOKEN
            => child.found /\ assertRawDirectoryMetadata(child.metadata)

\* the operations of the claim on one pod, one after the other
NextListing ==
    \/ Tick
    \/ PodDelete({<<"p">>})
    \/ PodCreate({<<"p">>})
    \/ DirectoryCreate({<<"p">>}, {<<"a">>})
    \/ DirectoryDelete({<<"p">>}, {<<"a">>})
    \/ FileUploadData({<<"p">>}, {<<"f">>, <<"a", "f">>}, {<<1>>}, {1})
    \/ FileDelete({<<"p">>}, {<<"f">>})
    \/ FileShare({<<"p">>}, {<<"f">>})
    \/ FileSaveShared({<<"p">>}, {Root, <<"a">>}, {"g"})

SpecListing == InitPod /\ [][NextListing]_vars

ListingPaths == {Root, <<"a">>, <<"a", "b">>}

\* C37: after operations that ran one after the other, each to its end, every
\* entry of a directory's listing has a record of the matching kind at parent
\* path + name, and a recursive read from the root of the pod is answered.
C37_ListedEntriesHaveRecords ==
    getReadablePodInfo(feed, now, <<"p">>).found
        => /\ \A path \in ListingPaths :
                  (RecordOf(path).found /\ assertRawDirectoryMetadata(RecordOf(path).metadata))
                      => \A i \in 1..Len(RecordOf(path).metadata.fileOrDirNames) :
                             EntryHasRecord(path, RecordOf(path).metadata.fileOrDirNames[i])
           /\ directoryRead(feed, now, <<"p">>, Root, TRUE).result = "ok"

\* a directory and a received file are listed, each with its record, after a
\* shared file was saved in the directory
C37_Witness ==
    /\ last.op = "fileSaveShared"
    /\ last.result = "ok"
    /\ last.path = <<"a">>
    /\ Listed(RecordOf(Root).metadata.fileOrDirNames, <<DIRECTORY_TOKEN, "a">>)
    /\ Listed(RecordOf(Root).metadata.fileOrDirNames, <<FILE_TOKEN, "f">>)
    /\ Listed(RecordOf(<<"a">>).metadata.fileOrDirNames, <<FILE_TOKEN, "g">>)
    /\ EntryHasRecord(<<"a">>, <<FILE_TOKEN, "g">>)
    /\ directoryRead(feed, now, <<"p">>, Root, TRUE).result = "ok"

----------------------------------------------------------------------------
(* One name, two kinds: a directory and a file of one name under one parent *)

\* the content uploaded by the racing File.uploadData, and its block size
RACE_DATA == <<1>>
RACE_BLOCK_SIZE == 1

\* the blocks and the manifest of the racing upload
RaceBlocks(f, t) ==
    UploadBlocks(RACE_DATA, RACE_BLOCK_SIZE, getWritablePodInfo(f, t, RACE_POD).key)
RaceManifest(f, t) ==
    DocBlob(encryptJson(getWritablePodInfo(f, t, RACE_POD).key,
                        blocksToManifest(RaceBlocks(f, t))))

\* File.uploadData after the pod list answered and the blocks and the manifest
\* were uploaded: the metadata is made, addEntryToDirectory starts
uploadStarted(f, t, path) ==
    [op |-> "fileUploadData", path |-> path, pc |-> "probe",
     owner |-> getWritablePodInfo(f, t, RACE_POD).owner,
     key |-> getWritablePodInfo(f, t, RACE_POD).key,
     pending |-> NoWrite, result |-> "none", refused |-> <<>>,
     child |-> getFileMetadataRawBytes(
                   [version |-> META_VERSION, podName |-> RACE_POD,
                    filePath |-> ParentOf(path), fileName |-> NameOf(path),
                    fileSize |-> Len(RACE_DATA), blockSize |-> RACE_BLOCK_SIZE,
                    contentType |-> "", compression |-> "", creationTime |-> t,
                    accessTime |-> t, modificationTime |-> t,
                    blocksReference |-> RaceManifest(f, t), sharedPassword |-> ""])]

UploadStart(w) ==
    /\ calls[w].pc = "idle"
    /\ \E path \in RacePaths :
           /\ calls' = [calls EXCEPT ![w] = uploadStarted(feed, now, path)]
           /\ blobs' = blobs \cup {RaceBlocks(feed, now)[j].reference :
                                      j \in 1..Len(RaceBlocks(feed, now))}
                             \cup {RaceManifest(feed, now)}
    /\ UNCHANGED <<now, feed, steps, last, hist>>

\* writer 1 creates a directory while writer 2 uploads a file
NextKinds ==
    \/ Tick
    \/ RaceStart(1)
    \/ UploadStart(2)
    \/ \E w \in Writers : RaceProbe(w)
    \/ \E w \in Writers : RaceFetch(w)
    \/ \E w \in Writers : RaceWriteParent(w)
    \/ \E w \in Writers : RaceWriteChild(w)

SpecKinds == InitPod /\ [][NextKinds]_vars

\* no name of the listing has an entry of each kind
OneKindPerName(names) ==
    \A i, j \in 1..Len(names) : names[i][2] = names[j][2] => names[i][1] = names[j][1]

\* C38: files and directories share the names of a parent: Directory.create
\* and File.uploadData at a path that has a record of either kind fail
\* AlreadyExists, and no version of a listing has both the file entry and the
\* directory entry of one name.
C38_OneNamespacePerParent ==
    /\ (/\ last.op \in {"directoryCreate", "fileUploadData"}
        /\ PodBefore.found
        /\ Len(last.path) > 0
        /\ RecordBefore(last.path).found)
           => last.result = "AlreadyExists"
    /\ \A d \in DirectoryRecords : OneKindPerName(d.fileOrDirNames)

----------------------------------------------------------------------------
(* Consecutive rewrites of one topic *)

\* the version the topic holds for a reader at the second of the last call
ReadBack == feedRead(TopLevel, feed, last.at, ROOT_OWNER, FEED_TOPIC)

\* C39: calls that rewrite one topic one after the other, within one second or
\* at later seconds, each read what the call before wrote: the lookup of a
\* write returns the epoch of the write before it, and after it the topic
\* reads as the version it wrote.
C39_ReadYourWrites ==
    (last.op = "feedWrite" /\ Len(Writes) >= 2)
        => /\ last.trace[1].level = Writes[Len(Writes) - 1].level
           /\ last.trace[1].time = Writes[Len(Writes) - 1].time
           /\ ReadBack.result = "ok"
           /\ ReadBack.data = <<Len(Writes)>>

====
